---------------------------- MODULE Spec2Model ----------------------------
(***************************************************************************)
(* A model of mctools (mcc, mcstats, mcextract): motif instance clean-up   *)
(* and de-duplication, the motif clustering coefficient, the null-model    *)
(* sample generator calc_sample and the clustering-type catalogue.         *)
(*                                                                         *)
(* Graphs are records [n, dir, e]: n vertices 0..n-1, a directed flag and  *)
(* a bag of edges <<from, to>> (igraph graphs are multigraphs; an          *)
(* undirected edge is stored as <<min, max>>).  A mapping is a function    *)
(* from pattern vertex 0..size-1 to a host node; lists of mappings are     *)
(* sequences.                                                              *)
(***************************************************************************)
EXTENDS Integers, Sequences, FiniteSets, Bags, TLC

VARIABLES
    pc,               \* position of the running routine
    graph,            \* the host graph (mcc: G / graph, mcstats: G)
    motif,            \* the pattern graph (mcc: motif, mcstats: M)
    maps,             \* raw mapping list returned by the isomorphism oracle
    actMaps,          \* mcstats: list of unique instances; its length is actMapsCount
    cTypes,           \* mcstats: catalogue of clustering types
    cTypeCounts,      \* mcstats: one counter per type plus the unclustered counter
    ovl,              \* mcstats Part I: position of the overlap enumeration
    pair,             \* mcstats Part II: loop variables i, j of the pairwise comparison
    stat,             \* mcc motif_clustering: record of the computed quantities
    count,            \* calc_sample: target number of motifs
    MAX_MOTIF_TRIALS, \* mcc global trial limit
    G,                \* calc_sample: currently accepted graph
    altG,             \* calc_sample: candidate graph
    newEdges,         \* calc_sample: edges of the copies placed so far
    placed,           \* calc_sample: loop variable j of the placement loop
    curCount,         \* calc_sample
    oldCount,         \* calc_sample
    curAdd,           \* calc_sample
    motifPlaceTrial,  \* calc_sample
    samples,          \* calc_samples: the vector res; z_score: the vector samples
    sampleNo,         \* calc_samples: loop variable s
    flag,             \* calc_samples: flag
    z,                \* z_score: mcc and the local variables
    perm,             \* a renaming of the host's node IDs
    ret               \* return value / result of the routine

vars == <<pc, graph, motif, maps, actMaps, cTypes, cTypeCounts, ovl, pair, stat, count,
          MAX_MOTIF_TRIALS, G, altG, newEdges, placed, curCount, oldCount,
          curAdd, motifPlaceTrial, samples, sampleNo, flag, z, perm, ret>>

\* the variables of calc_sample, of the mapping lists and of the catalogue
sampleVars == <<count, MAX_MOTIF_TRIALS, G, altG, newEdges, placed, curCount, oldCount,
                curAdd, motifPlaceTrial>>
listVars == <<maps, actMaps, cTypeCounts, pair, stat>>
typeVars == <<cTypes, ovl>>
scoreVars == <<samples, sampleNo, flag, z, perm>>

(***************************************************************************)
(* Bounds of the model.                                                    *)
(***************************************************************************)
\* number of nodes of the host graphs of calc_sample
SampleNodes == 3
\* largest target count given to calc_sample
MaxCount == 3
\* largest MAX_MOTIF_TRIALS
MaxTrials == 2
\* a target count no graph on SampleNodes nodes reaches
LargeCount == 7
\* a target count whose first batch is of three copies of the pattern
HugeCount == 15
\* threads of the EXPERIMENTAL build, and most edges of the host they work on
OmpThreads == 2
OmpEdges == 3
\* nodes and most edges of a host whose node IDs are renamed
RelabelNodes == 4
RelabelEdges == 4

\* number of nodes of the host graphs given to mcstats and motif_clustering
HostNodes == 6
\* largest number of edges of those host graphs
MaxHostEdges == 4
\* raw mapping lists of up to this length are taken in every order
MaxPermuted == 3
\* largest length of the samples vector given to z_score
MaxSamples == 3
\* largest number of samples asked of calc_samples
MaxCalls == 2

(***************************************************************************)
(* Graphs (the part of igraph the programs use).                           *)
(***************************************************************************)
Range(f) == {f[x] : x \in DOMAIN f}

Min2(a, b) == IF a <= b THEN a ELSE b
Max2(a, b) == IF a >= b THEN a ELSE b

\* how an edge between u and v is stored
EdgeOf(dir, u, v) == IF dir THEN <<u, v>> ELSE <<Min2(u, v), Max2(u, v)>>

\* igraph_empty
EmptyGraph(n, dir) == [n |-> n, dir |-> dir, e |-> EmptyBag]

\* a simple graph from a set of edges
MkGraph(n, dir, E) == [n |-> n, dir |-> dir, e |-> SetToBag({EdgeOf(dir, x[1], x[2]) : x \in E})]

vcount(g) == g.n
ecount(g) == BagCardinality(g.e)
Edges(g) == BagToSet(g.e)

\* igraph_add_vertices
add_vertices(g, k) == [g EXCEPT !.n = @ + k]

\* igraph_add_edges: b is a bag of stored edges
add_edges(g, b) == [g EXCEPT !.e = @ (+) b]

\* igraph_simplify(g, multiple, loops)
simplify(g, multiple, loops) ==
    LET keep == {x \in Edges(g) : ~(loops /\ x[1] = x[2])}
    IN  [g EXCEPT !.e = [x \in keep |-> IF multiple THEN 1 ELSE g.e[x]]]

\* number of edges of the subgraph induced on the vertex set S
\* (igraph_induced_subgraph / igraph_subgraph followed by igraph_ecount)
InducedEcount(g, S) ==
    LET inS == {x \in Edges(g) : x[1] \in S /\ x[2] \in S}
    IN  BagCardinality([x \in inS |-> g.e[x]])

\* the bag of edges a pattern's edges become under the vertex assignment f
RECURSIVE ImageBag(_, _, _)
ImageBag(dir, E, f) ==
    IF E = {} THEN EmptyBag
    ELSE LET x == CHOOSE y \in E : TRUE
         IN  SetToBag({EdgeOf(dir, f[x[1]], f[x[2]])}) (+) ImageBag(dir, E \ {x}, f)

(***************************************************************************)
(* The isomorphism oracle (igraph VF2).  It works on the adjacency of the  *)
(* graphs with loops and multiple edges ignored, and matches a pattern to  *)
(* a not necessarily induced subgraph: every pattern edge must be a host   *)
(* edge.                                                                   *)
(***************************************************************************)
Adj(g, u, v) ==
    /\ u # v
    /\ \/ <<u, v>> \in DOMAIN g.e
       \/ ~g.dir /\ <<v, u>> \in DOMAIN g.e

InDeg(g, v) == Cardinality({u \in 0..(g.n-1) : Adj(g, u, v)})
OutDeg(g, v) == Cardinality({u \in 0..(g.n-1) : Adj(g, v, u)})

\* the mappings of pattern vertices 0..k-1 that respect the pattern's edges;
\* cand[a] are the host nodes whose degrees allow them to carry pattern vertex a
RECURSIVE PartialMaps(_, _, _, _)
PartialMaps(g, m, k, cand) ==
    IF k = 0 THEN {[i \in {} |-> 0]}
    ELSE {[i \in 0..(k-1) |-> IF i < k-1 THEN pv[1][i] ELSE pv[2]] :
            pv \in {qv \in PartialMaps(g, m, k-1, cand) \X cand[k-1] :
                      /\ qv[2] \notin Range(qv[1])
                      /\ \A a \in 0..(k-2) :
                            /\ Adj(m, a, k-1) => Adj(g, qv[1][a], qv[2])
                            /\ Adj(m, k-1, a) => Adj(g, qv[2], qv[1][a])}}

\* the set of mappings igraph_get_subisomorphisms_vf2 returns
Subisomorphisms(g, m) ==
    LET ing == [v \in 0..(g.n-1) |-> InDeg(g, v)]
        outg == [v \in 0..(g.n-1) |-> OutDeg(g, v)]
        cand == [a \in 0..(m.n-1) |->
                    {v \in 0..(g.n-1) : ing[v] >= InDeg(m, a) /\ outg[v] >= OutDeg(m, a)}]
    IN  PartialMaps(g, m, m.n, cand)

\* igraph_count_subisomorphisms_vf2
count_subisomorphisms(g, m) == Cardinality(Subisomorphisms(g, m))

\* igraph_isomorphic (both graphs simple)
isomorphic(g1, g2) ==
    /\ vcount(g1) = vcount(g2)
    /\ ecount(g1) = ecount(g2)
    /\ Subisomorphisms(g1, g2) # {}

(***************************************************************************)
(* Lists of mappings.                                                      *)
(***************************************************************************)
\* lexicographic order of two mappings of the same size
RECURSIVE LexLess(_, _, _)
LexLess(a, b, i) ==
    IF i \notin DOMAIN a THEN FALSE
    ELSE IF a[i] # b[i] THEN a[i] < b[i]
    ELSE LexLess(a, b, i + 1)

RECURSIVE SortedSeq(_)
SortedSeq(S) ==
    IF S = {} THEN <<>>
    ELSE LET lo == CHOOSE a \in S : \A b \in S \ {a} : LexLess(a, b, 0)
         IN  <<lo>> \o SortedSeq(S \ {lo})

RECURSIVE Orderings(_)
Orderings(S) ==
    IF S = {} THEN {<<>>}
    ELSE UNION {{<<a>> \o s : s \in Orderings(S \ {a})} : a \in S}


(***************************************************************************)
(* Pattern graphs (built by igraph_isoclass_create from a class index;     *)
(* the pattern is directed exactly when the host graph is).                *)
(***************************************************************************)
Chain3 == MkGraph(3, TRUE, {<<0, 1>>, <<1, 2>>})
OutStar3 == MkGraph(3, TRUE, {<<0, 1>>, <<0, 2>>})
FeedForward3 == MkGraph(3, TRUE, {<<0, 1>>, <<1, 2>>, <<0, 2>>})
Cycle3 == MkGraph(3, TRUE, {<<0, 1>>, <<1, 2>>, <<2, 0>>})
Path3 == MkGraph(3, FALSE, {<<0, 1>>, <<1, 2>>})
Triangle3 == MkGraph(3, FALSE, {<<0, 1>>, <<1, 2>>, <<0, 2>>})

(***************************************************************************)
(* mcc: clean-up of the raw mapping list and motif_count.                  *)
(***************************************************************************)
\* VECTOR(*curi)[0] = -1
Invalidate(f) == [f EXCEPT ![0] = -1]

\* IsValid changed the way a slip would: slot 0 is tested for a positive ID
IsValid_Positive(f) == f[0] > 0

\* VECTOR(*cur)[0] != -1
IsValid(f) == f[0] # -1

\* the automorphism count of the pattern
rotSymOf(m) == count_subisomorphisms(m, m)

\* the clean-up loop of motif_clustering and motif_count: the list after it
mcc_clean(g, m, ms) ==
    IF g.dir
    THEN [i \in 1..Len(ms) |->
            IF InducedEcount(g, Range(ms[i])) # ecount(m)
            THEN Invalidate(ms[i]) ELSE ms[i]]
    ELSE ms

\* actMaps after the clean-up loop
mcc_actMaps(g, m, ms) ==
    IF g.dir
    THEN Cardinality({i \in 1..Len(ms) : InducedEcount(g, Range(ms[i])) = ecount(m)})
    ELSE Len(ms)

motif_count(g, m) ==
    mcc_actMaps(g, m, SortedSeq(Subisomorphisms(g, m))) \div rotSymOf(m)

(***************************************************************************)
(* mcc: calc_sample.                                                       *)
(***************************************************************************)
NoGraph == [n |-> 0, dir |-> FALSE, e |-> EmptyBag]
NoStat == [done |-> FALSE]
NoRet == [code |-> -1, res |-> NoGraph]

SamplePatterns == {Chain3, Path3}

NoPair == [i |-> 0, j |-> 0]
NoOverlap == [overlap |-> 0, call |-> 0]

NoScore == [j |-> 0]

ScoreUnused ==
    /\ samples = <<>> /\ sampleNo = 0 /\ flag = 0 /\ z = NoScore /\ perm = <<>>

ListsUnused ==
    /\ maps = <<>> /\ actMaps = <<>> /\ cTypeCounts = <<>> /\ pair = NoPair /\ stat = NoStat

SampleUnused ==
    /\ ListsUnused /\ cTypes = <<>> /\ ovl = NoOverlap /\ ScoreUnused

SampleInit ==
    /\ SampleUnused
    /\ motif \in SamplePatterns
    /\ graph = EmptyGraph(SampleNodes, motif.dir)
    /\ count \in 0..MaxCount
    /\ MAX_MOTIF_TRIALS \in 0..MaxTrials
    /\ G = EmptyGraph(SampleNodes, motif.dir)
    /\ altG = NoGraph
    /\ newEdges = EmptyBag
    /\ placed = 0
    /\ oldCount = 0
    /\ curCount = 0
    /\ motifPlaceTrial = 0
    /\ curAdd = IF count \div 5 < 1 THEN 1 ELSE count \div 5
    /\ ret = NoRet
    /\ pc = "while"

SampleFrame ==
    UNCHANGED <<graph, motif, listVars, typeVars, scoreVars, count, MAX_MOTIF_TRIALS>>

\* while (motifPlaceTrial < MAX_MOTIF_TRIALS): enter the body, copy G to altG
SampleEnter ==
    /\ pc = "while"
    /\ motifPlaceTrial < MAX_MOTIF_TRIALS
    /\ altG' = G
    /\ newEdges' = EmptyBag
    /\ placed' = 0
    /\ pc' = "place"
    /\ UNCHANGED <<G, curCount, oldCount, curAdd, motifPlaceTrial, ret>>
    /\ SampleFrame

\* the loop condition fails
SampleLeave ==
    /\ pc = "while"
    /\ ~(motifPlaceTrial < MAX_MOTIF_TRIALS)
    /\ pc' = "exit"
    /\ UNCHANGED <<G, altG, newEdges, placed, curCount, oldCount, curAdd,
                   motifPlaceTrial, ret>>
    /\ SampleFrame

\* one pass of for (j=0; j<curAdd; j++): a copy of the pattern on random node IDs
SamplePlace ==
    /\ pc = "place"
    /\ placed < curAdd
    /\ \E mNodes \in [0..(vcount(motif)-1) -> 0..(vcount(graph)-1)] :
          newEdges' = newEdges (+) ImageBag(motif.dir, Edges(motif), mNodes)
    /\ placed' = placed + 1
    /\ UNCHANGED <<pc, G, altG, curCount, oldCount, curAdd, motifPlaceTrial, ret>>
    /\ SampleFrame

Candidate == add_edges(altG, newEdges)

\* BatchAfterAccept changed the way a slip would: the new size is always taken
BatchAfterAccept_Always(newAdd, oldAdd) == newAdd

\* if (newAdd < curAdd) curAdd = newAdd
BatchAfterAccept(newAdd, oldAdd) == IF newAdd < oldAdd THEN newAdd ELSE oldAdd

\* curCount < count && curCount != oldCount: accept the change
SampleAccept ==
    /\ pc = "place"
    /\ placed = curAdd
    /\ LET c == motif_count(Candidate, motif)
           newAdd == IF (count - c) \div 3 < 1 THEN 1 ELSE (count - c) \div 3
       IN  /\ c < count /\ c # oldCount
           /\ curCount' = c
           /\ curAdd' = BatchAfterAccept(newAdd, curAdd)
           /\ motifPlaceTrial' = IF motifPlaceTrial < MAX_MOTIF_TRIALS THEN 0
                                 ELSE motifPlaceTrial
           /\ G' = Candidate
           /\ altG' = Candidate
           /\ oldCount' = c
    /\ pc' = "while"
    /\ UNCHANGED <<newEdges, placed, ret>>
    /\ SampleFrame

\* curCount == count: accept and break
SampleHit ==
    /\ pc = "place"
    /\ placed = curAdd
    /\ LET c == motif_count(Candidate, motif)
       IN  /\ ~(c < count /\ c # oldCount)
           /\ c = count
           /\ curCount' = c
           /\ G' = Candidate
           /\ altG' = Candidate
    /\ motifPlaceTrial' = 0
    /\ pc' = "exit"
    /\ UNCHANGED <<newEdges, placed, oldCount, curAdd, ret>>
    /\ SampleFrame

\* TrialAfterReject changed the way a slip would: the trial is not counted
TrialAfterReject_Kept(third, trial) == trial

\* if (curAdd <= 1) { curAdd = 1; if (motifPlaceTrial < MAX_MOTIF_TRIALS) motifPlaceTrial++; }
TrialAfterReject(third, trial) ==
    IF third <= 1 /\ trial < MAX_MOTIF_TRIALS THEN trial + 1 ELSE trial

\* otherwise: reject the candidate
SampleReject ==
    /\ pc = "place"
    /\ placed = curAdd
    /\ LET c == motif_count(Candidate, motif)
           third == curAdd \div 3
       IN  /\ ~(c < count /\ c # oldCount)
           /\ c # count
           /\ curCount' = c
           /\ curAdd' = IF third <= 1 THEN 1 ELSE third
           /\ motifPlaceTrial' = TrialAfterReject(third, motifPlaceTrial)
    /\ altG' = NoGraph
    /\ pc' = "while"
    /\ UNCHANGED <<G, newEdges, placed, oldCount, ret>>
    /\ SampleFrame

\* CouldNotPlace changed the way a slip would: any count but the target fails
CouldNotPlace_Unequal(cur, target) == cur # target

\* "Could not place the motifs so return with error": if (curCount > count)
CouldNotPlace(cur, target) == cur > target

\* after the loop: return 1 if curCount > count, else copy G to res and return 0
SampleReturn ==
    /\ pc = "exit"
    /\ ret' = IF CouldNotPlace(curCount, count) THEN [code |-> 1, res |-> NoGraph]
              ELSE [code |-> 0, res |-> G]
    /\ pc' = "done"
    /\ UNCHANGED <<G, altG, newEdges, placed, curCount, oldCount, curAdd, motifPlaceTrial>>
    /\ SampleFrame

SampleNext ==
    \/ SampleEnter
    \/ SampleLeave
    \/ SamplePlace
    \/ SampleAccept
    \/ SampleHit
    \/ SampleReject
    \/ SampleReturn

SpecSample == SampleInit /\ [][SampleNext]_vars

\* calc_sample called with a target within reach, or with one so large that
\* (count - curCount) / 3 > 1
SampleInitLarge ==
    /\ SampleUnused
    /\ motif \in SamplePatterns
    /\ graph = EmptyGraph(SampleNodes, motif.dir)
    /\ count \in {MaxCount, LargeCount}
    /\ MAX_MOTIF_TRIALS \in 1..MaxTrials
    /\ G = EmptyGraph(SampleNodes, motif.dir)
    /\ altG = NoGraph
    /\ newEdges = EmptyBag
    /\ placed = 0
    /\ oldCount = 0
    /\ curCount = 0
    /\ motifPlaceTrial = 0
    /\ curAdd = IF count \div 5 < 1 THEN 1 ELSE count \div 5
    /\ ret = NoRet
    /\ pc = "while"

SpecSampleLarge == SampleInitLarge /\ [][SampleNext]_vars

\* calc_sample called with a target within reach, or with one whose first
\* batch count / 5 is of three copies
SampleInitHuge ==
    /\ SampleUnused
    /\ \/ /\ motif \in SamplePatterns
          /\ count = MaxCount
       \/ /\ motif = Chain3
          /\ count = HugeCount
    /\ MAX_MOTIF_TRIALS \in 1..MaxTrials
    /\ graph = EmptyGraph(SampleNodes, motif.dir)
    /\ G = EmptyGraph(SampleNodes, motif.dir)
    /\ altG = NoGraph
    /\ newEdges = EmptyBag
    /\ placed = 0
    /\ oldCount = 0
    /\ curCount = 0
    /\ motifPlaceTrial = 0
    /\ curAdd = IF count \div 5 < 1 THEN 1 ELSE count \div 5
    /\ ret = NoRet
    /\ pc = "while"

SpecSampleHuge == SampleInitHuge /\ [][SampleNext]_vars


(***************************************************************************)
(* mcstats, Part I: the catalogue of clustering types.                     *)
(***************************************************************************)
Chain4 == MkGraph(4, TRUE, {<<0, 1>>, <<1, 2>>, <<2, 3>>})
Star4 == MkGraph(4, FALSE, {<<0, 1>>, <<0, 2>>, <<0, 3>>})

\* the vectors of k distinct pattern vertices, in the order the nested loops
\* over i, j, k visit them
InjTuples(size, k) ==
    LET Pow(e) == IF e = 0 THEN 1 ELSE IF e = 1 THEN size ELSE size * size
        visited == [r \in 1..(size * Pow(k - 1)) |->
                       [a \in 0..(k-1) |-> ((r - 1) \div Pow(k - 1 - a)) % size]]
        Distinct(t) == \A a \in 0..(k-1) : \A b \in 0..(k-1) : a # b => t[a] # t[b]
    IN  SelectSeq(visited, Distinct)

\* the mapping vector of merge_motifs: pattern vertex -> vertex of the merged graph
MergeMap(m, m1, m2) ==
    LET size == vcount(m)
        ov == DOMAIN m1
        known == [v \in 0..(size-1) |->
                    IF \E i \in ov : m2[i] = v
                    THEN m1[CHOOSE i \in ov : m2[i] = v /\ \A h \in ov : m2[h] = v => h <= i]
                    ELSE -1]
    IN  [v \in 0..(size-1) |->
            IF known[v] = -1
            THEN size + Cardinality({w \in 0..(v-1) : known[w] = -1})
            ELSE known[v]]

\* merge the same motif twice using a set of vertex overlaps
merge_motifs(m, m1, m2) ==
    LET remaining == vcount(m) - Cardinality(DOMAIN m1)
        res == add_vertices(m, remaining)
        map == MergeMap(m, m1, m2)
    IN  simplify(add_edges(res, ImageBag(m.dir, Edges(m), map)), TRUE, FALSE)

\* first check of add_cluster_type: the first copy keeps the pattern's edge count
FirstCopyKept(g, m) ==
    InducedEcount(g, 0..(vcount(m)-1)) = ecount(m)

\* SecondCopyKept changed the way a slip would: the other copy is not checked
SecondCopyKept_Skipped(g, m, m1) == TRUE

\* second check: so does the other copy (the overlap vertices and the new ones)
SecondCopyKept(g, m, m1) ==
    LET k == Cardinality(DOMAIN m1)
        seq == Range(m1) \cup {vcount(m) + i : i \in 0..(vcount(m) - k - 1)}
    IN  InducedEcount(g, seq) = ecount(m)

\* AlreadyFound changed the way a slip would: only the last type is compared
AlreadyFound_LastOnly(types, g) ==
    /\ Len(types) > 0
    /\ vcount(g) = vcount(types[Len(types)])
    /\ ecount(g) = ecount(types[Len(types)])
    /\ count_subisomorphisms(g, types[Len(types)]) > 0

\* AlreadyFound changed the way a slip would: the sizes are compared, the
\* graphs are not
AlreadyFound_SizesOnly(types, g) ==
    \E i \in 1..Len(types) :
        /\ vcount(g) = vcount(types[i])
        /\ ecount(g) = ecount(types[i])

\* the search loop of add_cluster_type: is the clustering type already in the list
AlreadyFound(types, g) ==
    \E i \in 1..Len(types) :
        /\ vcount(g) = vcount(types[i])
        /\ ecount(g) = ecount(types[i])
        /\ count_subisomorphisms(g, types[i]) > 0

\* given a new cluster mapping, checks if exists and adds to the types list
add_cluster_type(types, m, m1, m2) ==
    LET g == merge_motifs(m, m1, m2)
    IN  IF ~FirstCopyKept(g, m) THEN types
        ELSE IF ~SecondCopyKept(g, m, m1) THEN types
        ELSE IF AlreadyFound(types, g) THEN types
        ELSE Append(types, g)

CataloguePatterns == {Chain3, OutStar3, FeedForward3, Cycle3, Path3, Triangle3, Chain4, Star4}

CalcSampleUnused ==
    /\ count = 0 /\ MAX_MOTIF_TRIALS = 0 /\ G = NoGraph
    /\ altG = NoGraph /\ newEdges = EmptyBag /\ placed = 0 /\ curCount = 0
    /\ oldCount = 0 /\ curAdd = 0 /\ motifPlaceTrial = 0

SamplerUnused == CalcSampleUnused /\ ScoreUnused

CatalogueUnused ==
    /\ graph = NoGraph /\ ListsUnused /\ SamplerUnused

CatalogueInit ==
    /\ CatalogueUnused
    /\ motif \in CataloguePatterns
    /\ cTypes = <<>>
    /\ ovl = [overlap |-> 1, call |-> 0]
    /\ ret = NoRet
    /\ pc = "types"

CatalogueFrame == UNCHANGED <<graph, motif, listVars, sampleVars, scoreVars>>

\* one call of add_cluster_type from the nested loops of an overlap of 1, 2 or 3
CatalogueAdd ==
    /\ pc = "types"
    /\ ovl.overlap < vcount(motif)
    /\ ovl.overlap <= 3
    /\ LET tuples == InjTuples(vcount(motif), ovl.overlap)
           nT == Len(tuples)
           m1 == tuples[(ovl.call \div nT) + 1]
           m2 == tuples[(ovl.call % nT) + 1]
       IN  /\ cTypes' = add_cluster_type(cTypes, motif, m1, m2)
           /\ ovl' = IF ovl.call + 1 < nT * nT
                     THEN [ovl EXCEPT !.call = @ + 1]
                     ELSE [overlap |-> ovl.overlap + 1, call |-> 0]
    /\ UNCHANGED <<pc, ret>>
    /\ CatalogueFrame

\* UnsupportedOverlap changed the way a slip would: the message is printed but
\* the function does not return, and the loop goes on to the next overlap
UnsupportedOverlap_NoReturn(o) ==
    [pc |-> "types", ret |-> NoRet, ovl |-> [overlap |-> o.overlap + 1, call |-> 0]]

\* the else branch of the loop over the overlaps: return 1
UnsupportedOverlap(o) ==
    [pc |-> "done", ret |-> [code |-> 1, res |-> NoGraph], ovl |-> o]

\* an overlap of 4 or more: "only support for 3 and 4 node motifs"
CatalogueUnsupported ==
    /\ pc = "types"
    /\ ovl.overlap < vcount(motif)
    /\ ovl.overlap > 3
    /\ ret' = UnsupportedOverlap(ovl).ret
    /\ pc' = UnsupportedOverlap(ovl).pc
    /\ ovl' = UnsupportedOverlap(ovl).ovl
    /\ UNCHANGED cTypes
    /\ CatalogueFrame

\* the loop over the overlaps is finished
CatalogueDone ==
    /\ pc = "types"
    /\ ~(ovl.overlap < vcount(motif))
    /\ pc' = "typesDone"
    /\ UNCHANGED <<cTypes, ovl, ret>>
    /\ CatalogueFrame

CatalogueNext ==
    \/ CatalogueAdd
    \/ CatalogueDone

SpecCatalogue == CatalogueInit /\ [][CatalogueNext]_vars

\* a pattern of five vertices
Chain5 == MkGraph(5, TRUE, {<<0, 1>>, <<1, 2>>, <<2, 3>>, <<3, 4>>})

OverflowPatterns == {Chain3, Chain5}

\* motif_clustering_stats entered with a pattern and a host that holds it
OverflowInit ==
    /\ ListsUnused /\ SamplerUnused
    /\ motif \in OverflowPatterns
    /\ graph = add_vertices(motif, 1)
    /\ cTypes = <<>>
    /\ ovl = [overlap |-> 1, call |-> 0]
    /\ ret = NoRet
    /\ pc = "types"

\* Part II begins: the host is searched for the instances of the pattern
CatalogueSearch ==
    /\ pc = "typesDone"
    /\ maps' = SortedSeq(Subisomorphisms(graph, motif))
    /\ pc' = "mapped"
    /\ UNCHANGED <<graph, motif, typeVars, sampleVars, scoreVars, actMaps,
                   cTypeCounts, pair, stat, ret>>

OverflowNext ==
    \/ CatalogueAdd
    \/ CatalogueUnsupported
    \/ CatalogueDone
    \/ CatalogueSearch

SpecOverflow == OverflowInit /\ [][OverflowNext]_vars

(***************************************************************************)
(* Host graphs and the raw mapping list.                                   *)
(***************************************************************************)
RECURSIVE SubsetsUpTo(_, _)
SubsetsUpTo(S, k) ==
    IF k = 0 \/ S = {} THEN {{}}
    ELSE LET x == CHOOSE y \in S : TRUE
         IN  SubsetsUpTo(S \ {x}, k) \cup {T \cup {x} : T \in SubsetsUpTo(S \ {x}, k - 1)}

\* nodes named in the order of their degree (in plus out), largest first
DegreeOrdered(n, E) ==
    LET deg(v) == Cardinality({x \in E : x[1] = v}) + Cardinality({x \in E : x[2] = v})
    IN  \A v \in 0..(n-2) : deg(v) >= deg(v + 1)

\* the simple host graphs on HostNodes nodes with at most MaxHostEdges edges,
\* one naming of the nodes per degree sequence
Hosts(dir) ==
    LET V == 0..(HostNodes-1)
        P == {x \in V \X V : IF dir THEN x[1] # x[2] ELSE x[1] < x[2]}
    IN  {MkGraph(HostNodes, dir, E) :
            E \in {F \in SubsetsUpTo(P, MaxHostEdges) : DegreeOrdered(HostNodes, F)}}

Reverse(q) == [i \in 1..Len(q) |-> q[Len(q) + 1 - i]]

\* the orders in which the oracle may return the mappings S
RawOrders(S) ==
    IF Cardinality(S) <= MaxPermuted THEN Orderings(S)
    ELSE {SortedSeq(S), Reverse(SortedSeq(S))}

(***************************************************************************)
(* mcstats, Part II: clean-up, unique instances, pairwise comparison.      *)
(***************************************************************************)
\* the clean-up loop of motif_clustering_stats (and of motif_extract)
stats_clean(g, m, ms) ==
    IF g.dir
    THEN [i \in 1..Len(ms) |->
            IF InducedEcount(g, Range(ms[i])) # vcount(m)
            THEN Invalidate(ms[i]) ELSE ms[i]]
    ELSE ms

\* SameInstance changed the way a slip would: the vectors are compared slot by slot
SameInstance_Positional(cur, act) ==
    \A s \in DOMAIN cur : cur[s] = act[s]

\* the inner loops over s and t: count == igraph_vcount(M)
SameInstance(cur, act) ==
    Cardinality({s \in DOMAIN cur : \E t \in DOMAIN act : cur[s] = act[t]})
        = Cardinality(DOMAIN cur)

\* the loop "go through the whole list and add if not found already"
RECURSIVE DedupFrom(_, _, _)
DedupFrom(ms, i, acc) ==
    IF i > Len(ms) THEN acc
    ELSE IF IsValid(ms[i]) /\ ~\E j \in 1..Len(acc) : SameInstance(ms[i], acc[j])
         THEN DedupFrom(ms, i + 1, Append(acc, ms[i]))
         ELSE DedupFrom(ms, i + 1, acc)

unique_instances(ms) == DedupFrom(ms, 1, <<>>)

\* first part of clean_subgraph: do the two instances share a node
HasOverlap(m1Nodes, m2Nodes) ==
    \E i \in DOMAIN m2Nodes : \E j \in DOMAIN m1Nodes : m2Nodes[i] = m1Nodes[j]

\* the full mapping vector of clean_subgraph: the nodes of the first instance,
\* then the nodes of the second that are not in the first
FullMap(m1Nodes, m2Nodes) ==
    LET mSize == Cardinality(DOMAIN m1Nodes)
        isNew(i) == \A j \in DOMAIN m1Nodes : m2Nodes[i] # m1Nodes[j]
        newIdx == {i \in DOMAIN m2Nodes : isNew(i)}
        rank(i) == Cardinality({h \in newIdx : h < i})
    IN  [q \in 0..(mSize + Cardinality(newIdx) - 1) |->
            IF q < mSize THEN m1Nodes[q]
            ELSE m2Nodes[CHOOSE i \in newIdx : rank(i) = q - mSize]]

\* igraph_vector_search: first position of x in the vector
PosIn(map, x) == CHOOSE q \in DOMAIN map : map[q] = x /\ \A h \in DOMAIN map : map[h] = x => q <= h

\* the subgraph clean_subgraph builds for two instances that share a node
clean_subgraph(g, m, m1Nodes, m2Nodes) ==
    LET mSize == Cardinality(DOMAIN m1Nodes)
        map == FullMap(m1Nodes, m2Nodes)
        newNodes == {map[q] : q \in {h \in DOMAIN map : h >= mSize}}
        res == add_vertices(m, Cardinality(DOMAIN map) - mSize)
        \* edges of g at a new node whose two ends are nodes of the second instance
        hit == {x \in Edges(g) :
                  /\ x[1] \in newNodes \/ x[2] \in newNodes
                  /\ x[1] \in Range(m2Nodes) /\ x[2] \in Range(m2Nodes)
                  /\ x[1] \in Range(map) /\ x[2] \in Range(map)}
        added == SetToBag({EdgeOf(g.dir, PosIn(map, x[1]), PosIn(map, x[2])) : x \in hit})
    IN  simplify(add_edges(res, added), TRUE, TRUE)

\* index of the first clustering type isomorphic to sub, 0 if there is none
FirstType(types, sub) ==
    IF \E k \in 1..Len(types) : isomorphic(sub, types[k])
    THEN CHOOSE k \in 1..Len(types) :
            /\ isomorphic(sub, types[k])
            /\ \A h \in 1..(k-1) : ~isomorphic(sub, types[h])
    ELSE 0

\* the calls of add_cluster_type for one overlap, in the order of the loops
CallsFor(m, overlap) ==
    LET tuples == InjTuples(vcount(m), overlap)
        nT == Len(tuples)
    IN  [c \in 1..(nT * nT) |-> <<tuples[((c - 1) \div nT) + 1], tuples[((c - 1) % nT) + 1]>>]

\* the calls of the whole of Part I: overlap = 1, 2, 3 while overlap < vcount(M)
RECURSIVE CallsFrom(_, _)
CallsFrom(m, overlap) ==
    IF ~(overlap < vcount(m)) \/ overlap > 3 THEN <<>>
    ELSE CallsFor(m, overlap) \o CallsFrom(m, overlap + 1)

\* add_cluster_type applied to calls[lo..hi] in order, starting from types
RECURSIVE CatalogueFold(_, _, _, _, _)
CatalogueFold(m, calls, lo, hi, types) ==
    IF lo > hi THEN types
    ELSE IF lo = hi THEN add_cluster_type(types, m, calls[lo][1], calls[lo][2])
    ELSE LET mid == (lo + hi) \div 2
             first == CatalogueFold(m, calls, lo, mid, types)
         IN  IF Len(first) >= Len(types)
             THEN CatalogueFold(m, calls, mid + 1, hi, first)
             ELSE first

\* the list of clustering types Part I ends with
Catalogue(m) ==
    LET calls == CallsFrom(m, 1)
    IN  CatalogueFold(m, calls, 1, Len(calls), <<>>)

StatsPatterns == {Chain3, FeedForward3, Path3}

\* after Part I and igraph_get_subisomorphisms_vf2
StatsInit ==
    /\ SamplerUnused
    /\ motif \in StatsPatterns
    /\ cTypes = Catalogue(motif)
    /\ ovl = [overlap |-> vcount(motif), call |-> 0]
    /\ graph \in Hosts(motif.dir)
    /\ maps \in RawOrders(Subisomorphisms(graph, motif))
    /\ actMaps = <<>>
    /\ cTypeCounts = <<>>
    /\ pair = NoPair
    /\ stat = NoStat
    /\ ret = NoRet
    /\ pc = "found"

StatsFrame == UNCHANGED <<graph, motif, typeVars, sampleVars, scoreVars, stat>>

\* clean up maps list (only required for directed graphs)
StatsClean ==
    /\ pc = "found"
    /\ maps' = stats_clean(graph, motif, maps)
    /\ pc' = "cleaned"
    /\ UNCHANGED <<actMaps, cTypeCounts, pair, ret>>
    /\ StatsFrame

\* the unique instances; the counters are created and set to 0
StatsUnique ==
    /\ pc = "cleaned"
    /\ actMaps' = unique_instances(maps)
    /\ cTypeCounts' = [k \in 1..(Len(cTypes) + 1) |-> 0]
    /\ pair' = [i |-> 0, j |-> 1]
    /\ pc' = "pairs"
    /\ UNCHANGED <<maps, ret>>
    /\ StatsFrame

\* the loop variables after the pair (i, j)
NextPair(p, n) ==
    IF p.j + 1 < n THEN [i |-> p.i, j |-> p.j + 1]
    ELSE [i |-> p.i + 1, j |-> p.i + 2]

\* one pair (i, j) whose instances share a node and match a clustering type
StatsPairType ==
    /\ pc = "pairs"
    /\ pair.i < Len(actMaps) - 1
    /\ LET curi == actMaps[pair.i + 1]
           curj == actMaps[pair.j + 1]
       IN  /\ HasOverlap(curi, curj)
           /\ LET k == FirstType(cTypes, clean_subgraph(graph, motif, curi, curj))
              IN  /\ k # 0
                  /\ cTypeCounts' = [cTypeCounts EXCEPT ![k] = @ + 1]
    /\ pair' = NextPair(pair, Len(actMaps))
    /\ UNCHANGED <<pc, maps, actMaps, ret>>
    /\ StatsFrame

\* one pair whose instances share a node and match none of the types
StatsPairNoType ==
    /\ pc = "pairs"
    /\ pair.i < Len(actMaps) - 1
    /\ LET curi == actMaps[pair.i + 1]
           curj == actMaps[pair.j + 1]
       IN  /\ HasOverlap(curi, curj)
           /\ FirstType(cTypes, clean_subgraph(graph, motif, curi, curj)) = 0
    /\ pair' = NextPair(pair, Len(actMaps))
    /\ UNCHANGED <<pc, maps, actMaps, cTypeCounts, ret>>
    /\ StatsFrame

\* one pair whose instances share no node: clean_subgraph returns 1
StatsPairApart ==
    /\ pc = "pairs"
    /\ pair.i < Len(actMaps) - 1
    /\ ~HasOverlap(actMaps[pair.i + 1], actMaps[pair.j + 1])
    /\ cTypeCounts' = [cTypeCounts EXCEPT ![Len(cTypes) + 1] = @ + 1]
    /\ pair' = NextPair(pair, Len(actMaps))
    /\ UNCHANGED <<pc, maps, actMaps, ret>>
    /\ StatsFrame

\* the pairwise loop is finished: the counts are printed, return 0
StatsReturn ==
    /\ pc = "pairs"
    /\ ~(pair.i < Len(actMaps) - 1)
    /\ ret' = [code |-> 0, res |-> NoGraph]
    /\ pc' = "done"
    /\ UNCHANGED <<maps, actMaps, cTypeCounts, pair>>
    /\ StatsFrame

StatsNext ==
    \/ StatsClean
    \/ StatsUnique
    \/ StatsPairType
    \/ StatsPairNoType
    \/ StatsPairApart
    \/ StatsReturn

SpecStats == StatsInit /\ [][StatsNext]_vars

(***************************************************************************)
(* Values of type double, with the rounding of every operation.            *)
(***************************************************************************)
\* Natural numbers of any size, as the sequence of their digits in base
\* LimbBase, lowest digit first and no zero as the highest digit; 0 is << >>.
LimbBase == 2^15

RECURSIVE BNorm(_)
BNorm(a) ==
    IF a = <<>> THEN a
    ELSE IF a[Len(a)] = 0 THEN BNorm(SubSeq(a, 1, Len(a) - 1))
    ELSE a

RECURSIVE BOf(_)
BOf(n) == IF n = 0 THEN <<>> ELSE <<n % LimbBase>> \o BOf(n \div LimbBase)

RECURSIVE BAddC(_, _, _)
BAddC(a, b, c) ==
    IF a = <<>> /\ b = <<>> THEN (IF c = 0 THEN <<>> ELSE <<c>>)
    ELSE LET x == IF a = <<>> THEN 0 ELSE Head(a)
             y == IF b = <<>> THEN 0 ELSE Head(b)
             s == x + y + c
         IN  <<s % LimbBase>> \o BAddC(IF a = <<>> THEN a ELSE Tail(a),
                                       IF b = <<>> THEN b ELSE Tail(b),
                                       s \div LimbBase)

BAdd(a, b) == BAddC(a, b, 0)

\* a - b - c for a >= b + c, digits not yet normalised
RECURSIVE BSubC(_, _, _)
BSubC(a, b, c) ==
    IF a = <<>> THEN <<>>
    ELSE LET y == IF b = <<>> THEN 0 ELSE Head(b)
             s == Head(a) - y - c
         IN  <<s % LimbBase>> \o BSubC(Tail(a), IF b = <<>> THEN b ELSE Tail(b),
                                       IF s < 0 THEN 1 ELSE 0)

BSub(a, b) == BNorm(BSubC(a, b, 0))

RECURSIVE BCmpAt(_, _, _)
BCmpAt(a, b, i) ==
    IF i = 0 THEN 0
    ELSE IF a[i] < b[i] THEN -1
    ELSE IF a[i] > b[i] THEN 1
    ELSE BCmpAt(a, b, i - 1)

\* -1, 0 or 1 as a < b, a = b or a > b
BCmp(a, b) ==
    IF Len(a) < Len(b) THEN -1
    ELSE IF Len(a) > Len(b) THEN 1
    ELSE BCmpAt(a, b, Len(a))

\* a * k for a digit k
RECURSIVE BMulC(_, _, _)
BMulC(a, k, c) ==
    IF a = <<>> THEN (IF c = 0 THEN <<>> ELSE <<c>>)
    ELSE LET s == Head(a) * k + c
         IN  <<s % LimbBase>> \o BMulC(Tail(a), k, s \div LimbBase)

RECURSIVE BMul(_, _)
BMul(a, b) ==
    IF a = <<>> \/ b = <<>> THEN <<>>
    ELSE BAdd(BMulC(a, Head(b), 0),
              IF Tail(b) = <<>> THEN <<>> ELSE <<0>> \o BMul(a, Tail(b)))

\* a * 2^k
BShl(a, k) ==
    IF a = <<>> THEN a
    ELSE [i \in 1..(k \div 15) |-> 0] \o BMulC(a, 2^(k % 15), 0)

\* the digits of floor(a / 2^r) from digit i of a on, for r < 15
RECURSIVE BShrFrom(_, _, _)
BShrFrom(a, i, r) ==
    IF i > Len(a) THEN <<>>
    ELSE <<(a[i] \div 2^r) + (IF i < Len(a) THEN (a[i + 1] % 2^r) * 2^(15 - r) ELSE 0)>>
         \o BShrFrom(a, i + 1, r)

\* floor(a / 2^k)
BShr(a, k) == BNorm(BShrFrom(a, (k \div 15) + 1, k % 15))

\* bit i of a, bit 0 the lowest
BBit(a, i) ==
    IF i \div 15 >= Len(a) THEN 0 ELSE (a[(i \div 15) + 1] \div 2^(i % 15)) % 2

\* a is a multiple of 2^k
BLowZero(a, k) ==
    /\ \A i \in 1..Len(a) : i <= k \div 15 => a[i] = 0
    /\ (k \div 15 < Len(a) => a[(k \div 15) + 1] % 2^(k % 15) = 0)

RECURSIVE IntBits(_)
IntBits(n) == IF n = 0 THEN 0 ELSE 1 + IntBits(n \div 2)

\* the number of bits of a: 0 for 0
BitLen(a) == IF a = <<>> THEN 0 ELSE 15 * (Len(a) - 1) + IntBits(a[Len(a)])

RECURSIVE IntLowZeros(_)
IntLowZeros(n) == IF n % 2 = 1 THEN 0 ELSE 1 + IntLowZeros(n \div 2)

\* the number of zero bits below the lowest one bit of a # 0
RECURSIVE BLowZeros(_)
BLowZeros(a) == IF Head(a) = 0 THEN 15 + BLowZeros(Tail(a)) ELSE IntLowZeros(Head(a))

\* the largest digit q in lo..hi with q * d <= n, where lo * d <= n
RECURSIVE BDigit(_, _, _, _)
BDigit(n, d, lo, hi) ==
    IF lo = hi THEN lo
    ELSE LET mid == (lo + hi + 1) \div 2
         IN  IF BCmp(BMulC(d, mid, 0), n) <= 0 THEN BDigit(n, d, mid, hi)
             ELSE BDigit(n, d, lo, mid - 1)

\* quotient (digits not yet normalised) and remainder of the number made of
\* the digits of n from digit i on, by d # 0: long division, a digit a step
RECURSIVE BDivFrom(_, _, _)
BDivFrom(n, d, i) ==
    IF i > Len(n) THEN [q |-> <<>>, r |-> <<>>]
    ELSE LET h == BDivFrom(n, d, i + 1)
             r2 == BNorm(<<n[i]>> \o h.r)
             digit == BDigit(r2, d, 0, LimbBase - 1)
         IN  [q |-> <<digit>> \o h.q, r |-> BSub(r2, BMulC(d, digit, 0))]

\* quotient and remainder of n by d # 0
BDivMod(n, d) ==
    LET h == BDivFrom(n, d, 1)
    IN  [q |-> BNorm(h.q), r |-> h.r]

\* floor(sqrt(n)) for n # 0 from an x >= floor(sqrt(n)): Newton's iteration
RECURSIVE BSqrtFrom(_, _)
BSqrtFrom(n, x) ==
    LET y == BShr(BAdd(x, BDivMod(n, x).q), 1)
    IN  IF BCmp(y, x) >= 0 THEN x ELSE BSqrtFrom(n, y)

\* floor(sqrt(n))
BSqrt(n) == IF n = <<>> THEN n ELSE BSqrtFrom(n, BShl(<<1>>, (BitLen(n) + 1) \div 2))

\* A double (IEEE 754 binary64): NaN, an infinity, or the number
\* (-1)^neg * mant * 2^exp with mant odd, or mant = << >> and exp = 0 for a zero.
NaN == [kind |-> "nan", neg |-> FALSE, mant |-> <<>>, exp |-> 0]
PosInf == [kind |-> "inf", neg |-> FALSE, mant |-> <<>>, exp |-> 0]
NegInf == [kind |-> "inf", neg |-> TRUE, mant |-> <<>>, exp |-> 0]
InfOf(neg) == IF neg THEN NegInf ELSE PosInf
ZeroOf(neg) == [kind |-> "num", neg |-> neg, mant |-> <<>>, exp |-> 0]

IsNaN(x) == x.kind = "nan"
IsInf(x) == x.kind = "inf"
IsZero(x) == x.kind = "num" /\ x.mant = <<>>

\* the double of value m * 2^e when that value is one: an infinity from 2^1024 on
Finite(neg, m, e) ==
    IF m = <<>> THEN ZeroOf(neg)
    ELSE IF BitLen(m) + e > 1024 THEN InfOf(neg)
    ELSE LET tz == BLowZeros(m)
         IN  [kind |-> "num", neg |-> neg, mant |-> BShr(m, tz), exp |-> e + tz]

\* The double nearest to m * 2^e, or to a value strictly between that and
\* (m + 1) * 2^e when sticky: 53 bits are kept, fewer below 2^-1022 where the
\* lowest bit is worth 2^-1074, and a tie goes to the even neighbour.
\* With sticky, m has 54 bits or more.
RoundInt(neg, m, e, sticky) ==
    LET sh == Max2(BitLen(m) - 53, (0 - 1074) - e)
    IN  IF sh <= 0 THEN Finite(neg, m, e)
        ELSE LET kept == BShr(m, sh)
                 half == BBit(m, sh - 1) = 1
                 rest == sticky \/ ~BLowZero(m, sh - 1)
                 up == half /\ (rest \/ BBit(kept, 0) = 1)
             IN  Finite(neg, IF up THEN BAddC(kept, <<>>, 1) ELSE kept, e + sh)

\* (double)n for an integer n
FromInt(n) == Finite(n < 0, BOf(IF n < 0 THEN 0 - n ELSE n), 0)

\* x + y for numbers x and y # 0 with |y| < |x| * 2^-59: y is less than a
\* quarter of the lowest of 57 bits of x
DAddFar(x, y) ==
    LET k == 57 - BitLen(x.mant)
        m == BShl(x.mant, k)
    IN  IF x.neg = y.neg THEN RoundInt(x.neg, m, x.exp - k, TRUE)
        ELSE RoundInt(x.neg, BSub(m, <<1>>), x.exp - k, TRUE)

\* x + y
DAdd(x, y) ==
    IF IsNaN(x) \/ IsNaN(y) THEN NaN
    ELSE IF IsInf(x) /\ IsInf(y) THEN (IF x = y THEN x ELSE NaN)
    ELSE IF IsInf(x) THEN x
    ELSE IF IsInf(y) THEN y
    ELSE IF IsZero(x) /\ IsZero(y) THEN ZeroOf(x.neg /\ y.neg)
    ELSE IF IsZero(x) THEN y
    ELSE IF IsZero(y) THEN x
    ELSE IF (BitLen(x.mant) + x.exp) - (BitLen(y.mant) + y.exp) > 60 THEN DAddFar(x, y)
    ELSE IF (BitLen(y.mant) + y.exp) - (BitLen(x.mant) + x.exp) > 60 THEN DAddFar(y, x)
    ELSE LET e == Min2(x.exp, y.exp)
             a == BShl(x.mant, x.exp - e)
             b == BShl(y.mant, y.exp - e)
             c == BCmp(a, b)
         IN  IF x.neg = y.neg THEN RoundInt(x.neg, BAdd(a, b), e, FALSE)
             ELSE IF c = 0 THEN ZeroOf(FALSE)
             ELSE IF c > 0 THEN RoundInt(x.neg, BSub(a, b), e, FALSE)
             ELSE RoundInt(y.neg, BSub(b, a), e, FALSE)

DNeg(x) == IF IsNaN(x) THEN x ELSE [x EXCEPT !.neg = ~@]

\* x - y
DSub(x, y) == DAdd(x, DNeg(y))

\* x * y
DMul(x, y) ==
    IF IsNaN(x) \/ IsNaN(y) THEN NaN
    ELSE IF IsInf(x) \/ IsInf(y)
         THEN (IF IsZero(x) \/ IsZero(y) THEN NaN ELSE InfOf(x.neg # y.neg))
    ELSE IF IsZero(x) \/ IsZero(y) THEN ZeroOf(x.neg # y.neg)
    ELSE RoundInt(x.neg # y.neg, BMul(x.mant, y.mant), x.exp + y.exp, FALSE)

\* x / y
DQuot(x, y) ==
    IF IsNaN(x) \/ IsNaN(y) THEN NaN
    ELSE IF IsInf(x) THEN (IF IsInf(y) THEN NaN ELSE InfOf(x.neg # y.neg))
    ELSE IF IsInf(y) THEN ZeroOf(x.neg # y.neg)
    ELSE IF IsZero(y) THEN (IF IsZero(x) THEN NaN ELSE InfOf(x.neg # y.neg))
    ELSE IF IsZero(x) THEN ZeroOf(x.neg # y.neg)
    ELSE LET s == 55 + BitLen(y.mant) - BitLen(x.mant)
             d == BDivMod(BShl(x.mant, s), y.mant)
         IN  RoundInt(x.neg # y.neg, d.q, x.exp - y.exp - s, d.r # <<>>)

\* The double next to m * 2^e on the side of zero, or on the other side when
\* away; m * 2^e itself when that is a double.
RoundToward(neg, m, e, away) ==
    LET sh == Max2(BitLen(m) - 53, (0 - 1074) - e)
    IN  IF sh <= 0 THEN Finite(neg, m, e)
        ELSE LET kept == BShr(m, sh)
             IN  Finite(neg, IF away /\ ~BLowZero(m, sh) THEN BAddC(kept, <<>>, 1) ELSE kept,
                        e + sh)

\* The values pow(x, 2.0) can have. The compiler may turn the call into x * x,
\* the rounded square; as a call of the library it is within one unit in the
\* last place of the square, so it is one of the two doubles the square lies
\* between, and the square itself when that is a double.
PowTwo(x) ==
    IF IsNaN(x) THEN {NaN}
    ELSE IF IsInf(x) THEN {PosInf}
    ELSE IF IsZero(x) THEN {ZeroOf(FALSE)}
    ELSE LET m == BMul(x.mant, x.mant)
         IN  {RoundToward(FALSE, m, 2 * x.exp, FALSE), RoundToward(FALSE, m, 2 * x.exp, TRUE)}

\* sqrt(x)
DSqrt(x) ==
    IF IsNaN(x) \/ IsZero(x) THEN x
    ELSE IF x.neg THEN NaN
    ELSE IF IsInf(x) THEN x
    ELSE LET t0 == Max2(0, 108 - BitLen(x.mant))
             t == t0 + ((x.exp - t0) % 2)
             m == BShl(x.mant, t)
             s == BSqrt(m)
         IN  RoundInt(FALSE, s, (x.exp - t) \div 2, BMul(s, s) # m)

\* (double)a / (double)b for integers a and b
DoubleDiv(a, b) == DQuot(FromInt(a), FromInt(b))

\* GeZero changed the way a slip would: every entry is taken
GeZero_Always(x) == TRUE

\* x >= 0.0: false for NaN
GeZero(x) == ~IsNaN(x) /\ (IsZero(x) \/ ~x.neg)

(***************************************************************************)
(* mcextract: motif_extract.                                               *)
(***************************************************************************)
\* igraph_vector_search(nMaps, 0, node, &nID): the first position holding node
SearchPos(nMaps, node) ==
    CHOOSE p \in 1..Len(nMaps) :
        nMaps[p] = node /\ \A h \in 1..(p-1) : nMaps[h] # node

\* sRes of igraph_vector_search: the node already has a new ID
SlotKnown(nMaps, node) == \E p \in 1..Len(nMaps) : nMaps[p] = node

\* "calculate mapping for current motif": the loop over j, from slot j on
RECURSIVE MapFrom(_, _, _, _)
MapFrom(nMaps, newMap, cur, j) ==
    IF j \notin DOMAIN cur THEN [nMaps |-> nMaps, newMap |-> newMap]
    ELSE IF SlotKnown(nMaps, cur[j])
         THEN MapFrom(nMaps, [newMap EXCEPT ![j] = SearchPos(nMaps, cur[j]) - 1], cur, j + 1)
         ELSE MapFrom(Append(nMaps, cur[j]), [newMap EXCEPT ![j] = Len(nMaps)], cur, j + 1)

\* one turn of the loop that grows the output graph one motif at a time
extract_grow(outG, nMaps, m, cur) ==
    LET mapped == MapFrom(nMaps, [j \in 0..(vcount(m)-1) |-> 0], cur, 0)
        toAdd == Len(mapped.nMaps) - Len(nMaps)
    IN  [outG |-> add_edges(add_vertices(outG, toAdd),
                            ImageBag(m.dir, Edges(m), mapped.newMap)),
         nMaps |-> mapped.nMaps]

ExtractPatterns == {Chain3, FeedForward3, Path3}

\* after igraph_empty(outG, 0, directed) and igraph_get_subisomorphisms_vf2
ExtractInit ==
    /\ SamplerUnused
    /\ motif \in ExtractPatterns
    /\ graph \in Hosts(motif.dir)
    /\ maps \in RawOrders(Subisomorphisms(graph, motif))
    /\ actMaps = <<>>
    /\ cTypes = <<>>
    /\ cTypeCounts = <<>>
    /\ ovl = NoOverlap
    /\ pair = NoPair
    /\ stat = [done |-> FALSE, vsSet |-> FALSE]
    /\ ret = [code |-> -1, res |-> EmptyGraph(0, graph.dir), nMaps |-> <<>>]
    /\ pc = "found"

ExtractFrame ==
    UNCHANGED <<graph, motif, typeVars, sampleVars, scoreVars, cTypeCounts>>

\* clean up maps list (only required for directed graphs); the vertex
\* selector vs is given a value by the first turn of the loop only
ExtractClean ==
    /\ pc = "found"
    /\ maps' = stats_clean(graph, motif, maps)
    /\ stat' = [stat EXCEPT !.vsSet = graph.dir /\ Len(maps) > 0]
    /\ pc' = "cleaned"
    /\ UNCHANGED <<actMaps, pair, ret>>
    /\ ExtractFrame

\* go through the whole list and add if not found already
ExtractUnique ==
    /\ pc = "cleaned"
    /\ actMaps' = unique_instances(maps)
    /\ pair' = [i |-> 0, j |-> 0]
    /\ pc' = "grow"
    /\ UNCHANGED <<maps, stat, ret>>
    /\ ExtractFrame

\* the instance actMaps[i] is added to the output graph
ExtractGrow ==
    /\ pc = "grow"
    /\ pair.i < Len(actMaps)
    /\ LET grown == extract_grow(ret.res, ret.nMaps, motif, actMaps[pair.i + 1])
       IN  ret' = [code |-> -1, res |-> grown.outG, nMaps |-> grown.nMaps]
    /\ pair' = [pair EXCEPT !.i = @ + 1]
    /\ UNCHANGED <<pc, maps, actMaps, stat>>
    /\ ExtractFrame

\* remove any duplicate edges
ExtractSimplify ==
    /\ pc = "grow"
    /\ ~(pair.i < Len(actMaps))
    /\ ret' = [ret EXCEPT !.res = simplify(@, TRUE, TRUE)]
    /\ pc' = "simplified"
    /\ UNCHANGED <<maps, actMaps, pair, stat>>
    /\ ExtractFrame

\* igraph_vs_destroy(&vs) and return 0
ExtractReturn ==
    /\ pc = "simplified"
    /\ ret' = [ret EXCEPT !.code = 0]
    /\ stat' = [stat EXCEPT !.done = TRUE]
    /\ pc' = "done"
    /\ UNCHANGED <<maps, actMaps, pair>>
    /\ ExtractFrame

\* igraph_vs_destroy(&vs) when vs was never given a value: the selector type
\* read is whatever the stack holds, and a type that owns memory makes the
\* call free a pointer that was never allocated
ExtractWildFree ==
    /\ pc = "simplified"
    /\ ~stat.vsSet
    /\ pc' = "crashed"
    /\ UNCHANGED <<maps, actMaps, pair, stat, ret>>
    /\ ExtractFrame

ExtractNext ==
    \/ ExtractClean
    \/ ExtractUnique
    \/ ExtractGrow
    \/ ExtractSimplify
    \/ ExtractReturn
    \/ ExtractWildFree

SpecExtract == ExtractInit /\ [][ExtractNext]_vars

(***************************************************************************)
(* mcc: motif_clustering.                                                  *)
(***************************************************************************)
\* the loops over k and p: slots of curi whose node is somewhere in curj
FoundShared(curi, curj) ==
    Cardinality({k \in DOMAIN curi : \E p \in DOMAIN curj : curi[k] = curj[p]})

\* SharedVerts changed the way a slip would: identical node sets are counted too
SharedVerts_NoFilter(found, motifSize) == found

\* if (found < motifSize) totSharedVerts += found
SharedVerts(found, motifSize) == IF found < motifSize THEN found ELSE 0

\* totSharedVerts over a set of pairs of list positions
RECURSIVE SharedOver(_, _, _)
SharedOver(ms, motifSize, pairs) ==
    IF pairs = {} THEN 0
    ELSE LET x == CHOOSE y \in pairs : TRUE
         IN  SharedVerts(FoundShared(ms[x[1]], ms[x[2]]), motifSize)
                + SharedOver(ms, motifSize, pairs \ {x})

\* step 4, first loop: the pairs i < j of mappings that are both valid
totSharedVertsOf(ms, motifSize) ==
    SharedOver(ms, motifSize,
               {x \in (1..Len(ms)) \X (1..Len(ms)) :
                    x[1] < x[2] /\ IsValid(ms[x[1]]) /\ IsValid(ms[x[2]])})

\* step 4, second loop, from i on
RECURSIVE PosFrom(_, _, _)
PosFrom(i, uniqueMotifs, motifSize) ==
    IF ~(i < uniqueMotifs) THEN 0
    ELSE (motifSize - 1) * (uniqueMotifs - i - 1) + PosFrom(i + 1, uniqueMotifs, motifSize)

\* posSharedVertsOf changed the way a slip would: each instance is paired with itself too
posSharedVertsOf_Inclusive(uniqueMotifs, motifSize) ==
    (motifSize - 1) * uniqueMotifs + PosFrom(0, uniqueMotifs, motifSize)

posSharedVertsOf(uniqueMotifs, motifSize) == PosFrom(0, uniqueMotifs, motifSize)

\* actSharedVertsOf changed the way a slip would: divided by rotSym once
actSharedVertsOf_DividedOnce(totSharedVerts, rotSym) == totSharedVerts \div rotSym

\* actSharedVerts = totSharedVerts/(rotSym*rotSym)
actSharedVertsOf(totSharedVerts, rotSym) == totSharedVerts \div (rotSym * rotSym)

\* actSharedVerts and posSharedVerts for a host, a pattern and a raw list
mcc_sharedVerts(g, m, ms) ==
    LET rotSym == rotSymOf(m)
        uniqueMotifs == mcc_actMaps(g, m, ms) \div rotSym
        tot == totSharedVertsOf(mcc_clean(g, m, ms), vcount(m))
    IN  [num |-> actSharedVertsOf(tot, rotSym),
         den |-> posSharedVertsOf(uniqueMotifs, vcount(m))]

\* the value motif_clustering writes to *res for a host, a pattern and a raw list
motif_clustering(g, m, ms) ==
    LET shared == mcc_sharedVerts(g, m, ms)
    IN  DoubleDiv(shared.num, shared.den)

MccPatterns == {Chain3, FeedForward3, Path3, Triangle3}

\* after steps 1 and 2 of motif_clustering
MccInit ==
    /\ SamplerUnused
    /\ motif \in MccPatterns
    /\ graph \in Hosts(motif.dir)
    /\ maps \in RawOrders(Subisomorphisms(graph, motif))
    /\ actMaps = <<>>
    /\ cTypes = <<>>
    /\ cTypeCounts = <<>>
    /\ ovl = NoOverlap
    /\ pair = NoPair
    /\ stat = NoStat
    /\ ret = NoRet
    /\ pc = "mapped"

MccFrame ==
    UNCHANGED <<graph, motif, typeVars, sampleVars, scoreVars, actMaps, cTypeCounts, pair>>

\* clean up maps list, step 3: uniqueMotifs = actMaps / rotSym
MccClean ==
    /\ pc = "mapped"
    /\ maps' = mcc_clean(graph, motif, maps)
    /\ stat' = [done |-> FALSE,
                rotSym |-> rotSymOf(motif),
                actMaps |-> mcc_actMaps(graph, motif, maps),
                uniqueMotifs |-> mcc_actMaps(graph, motif, maps) \div rotSymOf(motif)]
    /\ pc' = "counted"
    /\ UNCHANGED ret
    /\ MccFrame

\* step 4: actual and total possible shared vertices
MccShared ==
    /\ pc = "counted"
    /\ LET tot == totSharedVertsOf(maps, vcount(motif))
       IN  stat' = [done |-> FALSE,
                    rotSym |-> stat.rotSym,
                    actMaps |-> stat.actMaps,
                    uniqueMotifs |-> stat.uniqueMotifs,
                    totSharedVerts |-> tot,
                    posSharedVerts |-> posSharedVertsOf(stat.uniqueMotifs, vcount(motif)),
                    actSharedVerts |-> actSharedVertsOf(tot, stat.rotSym)]
    /\ pc' = "shared"
    /\ UNCHANGED <<maps, ret>>
    /\ MccFrame

\* step 5: *res = (double)actSharedVerts / (double)posSharedVerts, return 0
\* (res keeps the two operands, mcc is the quotient)
MccResult ==
    /\ pc = "shared"
    /\ stat' = [stat EXCEPT !.done = TRUE]
    /\ ret' = [code |-> 0,
               res |-> [num |-> stat.actSharedVerts, den |-> stat.posSharedVerts],
               mcc |-> DoubleDiv(stat.actSharedVerts, stat.posSharedVerts)]
    /\ pc' = "done"
    /\ UNCHANGED maps
    /\ MccFrame

MccNext ==
    \/ MccClean
    \/ MccShared
    \/ MccResult

SpecMcc == MccInit /\ [][MccNext]_vars

(***************************************************************************)
(* mcc: motif_clustering on a host and on the same host with its node IDs  *)
(* renamed.                                                                *)
(***************************************************************************)
\* every simple host on RelabelNodes nodes with at most RelabelEdges edges
RelabelHosts(dir) ==
    LET V == 0..(RelabelNodes-1)
        P == {x \in V \X V : IF dir THEN x[1] # x[2] ELSE x[1] < x[2]}
    IN  {MkGraph(RelabelNodes, dir, E) : E \in SubsetsUpTo(P, RelabelEdges)}

\* the bijections of the node IDs of a graph of n nodes
Renamings(n) ==
    {f \in [0..(n-1) -> 0..(n-1)] : \A a, b \in 0..(n-1) : f[a] = f[b] => a = b}

\* the host with node v renamed to f[v]
RenameGraph(g, f) ==
    MkGraph(g.n, g.dir, {<<f[x[1]], f[x[2]]>> : x \in BagToSet(g.e)})

\* the raw list with node v renamed to f[v], in the same order
RenameMaps(ms, f) ==
    [i \in 1..Len(ms) |-> [k \in DOMAIN ms[i] |-> f[ms[i][k]]]]

RelabelPatterns == {Chain3, FeedForward3, Path3}

\* a host, the raw list of its mappings and a renaming of its node IDs
RelabelInit ==
    /\ SamplerUnused
    /\ motif \in RelabelPatterns
    /\ graph \in RelabelHosts(motif.dir)
    /\ maps \in RawOrders(Subisomorphisms(graph, motif))
    /\ actMaps = <<>>
    /\ cTypes = <<>>
    /\ cTypeCounts = <<>>
    /\ ovl = NoOverlap
    /\ pair = NoPair
    /\ stat = NoStat
    /\ ret = NoRet
    /\ pc = "mapped"

RelabelFrame ==
    UNCHANGED <<motif, typeVars, sampleVars, samples, sampleNo, flag, z, actMaps,
                cTypeCounts, pair>>

\* motif_clustering on the host
RelabelRun ==
    /\ pc = "mapped"
    /\ ret' = [code |-> 0,
               res |-> mcc_sharedVerts(graph, motif, maps),
               mcc |-> motif_clustering(graph, motif, maps)]
    /\ pc' = "done"
    /\ UNCHANGED <<graph, maps, stat, perm>>
    /\ RelabelFrame

\* the node IDs are renamed
RelabelRename ==
    /\ pc = "done"
    /\ perm = <<>>
    /\ \E f \in Renamings(vcount(graph)) :
          /\ perm' = f
          /\ graph' = RenameGraph(graph, f)
          /\ maps' = RenameMaps(maps, f)
    /\ pc' = "renamed"
    /\ UNCHANGED <<stat, ret>>
    /\ RelabelFrame

\* motif_clustering on the renamed host
RelabelRunRenamed ==
    /\ pc = "renamed"
    /\ stat' = [done |-> TRUE,
                res |-> mcc_sharedVerts(graph, motif, maps),
                mcc |-> motif_clustering(graph, motif, maps)]
    /\ pc' = "compared"
    /\ UNCHANGED <<graph, maps, ret, perm>>
    /\ RelabelFrame

RelabelNext ==
    \/ RelabelRun
    \/ RelabelRename
    \/ RelabelRunRenamed

SpecRelabel == RelabelInit /\ [][RelabelNext]_vars

(***************************************************************************)
(* mcc: the pairwise loop of motif_clustering under                        *)
(*   #pragma omp parallel for default(none)                                *)
(*           private(i,j,k,p,found,curi,curj)                              *)
(*           shared(motifSize,mapsCount,totSharedVerts,maps)               *)
(* The iterations of the loop over i are dealt to the threads in blocks    *)
(* (the static schedule); each thread has its own i, j and found, and      *)
(* totSharedVerts += found is a read of the shared variable followed by a  *)
(* write of the sum, with nothing between the threads to order them.       *)
(***************************************************************************)
\* the simple hosts on RelabelNodes nodes with at most OmpEdges edges
OmpHosts(dir) ==
    LET V == 0..(RelabelNodes-1)
        P == {x \in V \X V : IF dir THEN x[1] # x[2] ELSE x[1] < x[2]}
    IN  {MkGraph(RelabelNodes, dir, E) : E \in SubsetsUpTo(P, OmpEdges)}

\* the block of iterations of thread t: i from lo up to, not including, hi
OmpBlock(t, mapsCount) ==
    LET chunk == (mapsCount + OmpThreads - 1) \div OmpThreads
    IN  [lo |-> Min2((t - 1) * chunk, mapsCount), hi |-> Min2(t * chunk, mapsCount)]

OmpPatterns == {Chain3, Path3}

\* the threads are started on the cleaned list, totSharedVerts = 0
OmpInit ==
    /\ SamplerUnused
    /\ motif \in OmpPatterns
    /\ graph \in OmpHosts(motif.dir)
    /\ maps = mcc_clean(graph, motif, SortedSeq(Subisomorphisms(graph, motif)))
    /\ actMaps = <<>>
    /\ cTypes = <<>>
    /\ cTypeCounts = <<>>
    /\ ovl = NoOverlap
    /\ pair = [t \in 1..OmpThreads |->
                  [i |-> OmpBlock(t, Len(maps)).lo,
                   j |-> OmpBlock(t, Len(maps)).lo + 1,
                   read |-> -1]]
    /\ stat = [done |-> FALSE, totSharedVerts |-> 0]
    /\ ret = NoRet
    /\ pc = "parallel"

OmpFrame ==
    UNCHANGED <<graph, motif, maps, typeVars, sampleVars, scoreVars, actMaps,
                cTypeCounts, ret>>

\* thread t is inside its block, at a pair (i, j) of the list
OmpAtPair(t) ==
    /\ pair[t].i < OmpBlock(t, Len(maps)).hi
    /\ pair[t].j < Len(maps)

\* both mappings are valid and found < motifSize: totSharedVerts += found runs
OmpAdds(t) ==
    LET curi == maps[pair[t].i + 1]
        curj == maps[pair[t].j + 1]
    IN  /\ IsValid(curi)
        /\ IsValid(curj)
        /\ FoundShared(curi, curj) < vcount(motif)

\* the loop over j of thread t is over: the next i
OmpNextI(t) ==
    /\ pc = "parallel"
    /\ pair[t].i < OmpBlock(t, Len(maps)).hi
    /\ ~(pair[t].j < Len(maps))
    /\ pair' = [pair EXCEPT ![t] = [i |-> @.i + 1, j |-> @.i + 2, read |-> -1]]
    /\ UNCHANGED <<pc, stat>>
    /\ OmpFrame

\* a pair that adds nothing: the next j
OmpNextJ(t) ==
    /\ pc = "parallel"
    /\ OmpAtPair(t)
    /\ ~OmpAdds(t)
    /\ pair' = [pair EXCEPT ![t].j = @ + 1]
    /\ UNCHANGED <<pc, stat>>
    /\ OmpFrame

\* totSharedVerts += found, first half: the shared variable is read
OmpRead(t) ==
    /\ pc = "parallel"
    /\ OmpAtPair(t)
    /\ OmpAdds(t)
    /\ pair[t].read = -1
    /\ pair' = [pair EXCEPT ![t].read = stat.totSharedVerts]
    /\ UNCHANGED <<pc, stat>>
    /\ OmpFrame

\* totSharedVerts += found, second half: the sum is written; the next j
OmpWrite(t) ==
    /\ pc = "parallel"
    /\ OmpAtPair(t)
    /\ pair[t].read # -1
    /\ stat' = [stat EXCEPT !.totSharedVerts =
                   pair[t].read + FoundShared(maps[pair[t].i + 1], maps[pair[t].j + 1])]
    /\ pair' = [pair EXCEPT ![t] = [i |-> @.i, j |-> @.j + 1, read |-> -1]]
    /\ UNCHANGED pc
    /\ OmpFrame

\* every thread has finished its block: the end of the parallel loop
OmpJoin ==
    /\ pc = "parallel"
    /\ \A t \in 1..OmpThreads : ~(pair[t].i < OmpBlock(t, Len(maps)).hi)
    /\ stat' = [stat EXCEPT !.done = TRUE]
    /\ pc' = "joined"
    /\ UNCHANGED pair
    /\ OmpFrame

OmpNext ==
    \/ \E t \in 1..OmpThreads : OmpNextI(t)
    \/ \E t \in 1..OmpThreads : OmpNextJ(t)
    \/ \E t \in 1..OmpThreads : OmpRead(t)
    \/ \E t \in 1..OmpThreads : OmpWrite(t)
    \/ OmpJoin

SpecOmp == OmpInit /\ [][OmpNext]_vars

(***************************************************************************)
(* mcc: calc_samples (each sample is one run of calc_sample).              *)
(***************************************************************************)
\* flag after a call of calc_sample that returned suc, changed the way a slip
\* would: the flag follows the last call
FlagAfter_LastCall(f, suc) == IF suc = 1 THEN 1 ELSE 0

\* if (suc == 1) flag = 1
FlagAfter(f, suc) == IF suc = 1 THEN 1 ELSE f

\* the locals of calc_sample before its loop
CalcSampleStart ==
    /\ G' = EmptyGraph(vcount(graph), graph.dir)
    /\ altG' = NoGraph
    /\ newEdges' = EmptyBag
    /\ placed' = 0
    /\ oldCount' = 0
    /\ curCount' = 0
    /\ motifPlaceTrial' = 0
    /\ curAdd' = IF count \div 5 < 1 THEN 1 ELSE count \div 5

\* calc_sample has returned and its result is used: its locals and Gs are gone
CalcSampleOver ==
    /\ G' = NoGraph /\ altG' = NoGraph /\ newEdges' = EmptyBag /\ placed' = 0
    /\ curCount' = 0 /\ oldCount' = 0 /\ curAdd' = 0 /\ motifPlaceTrial' = 0
    /\ ret' = NoRet

\* after igraph_vector_init(res, samples), flag = 0
SamplesInit ==
    /\ ListsUnused /\ cTypes = <<>> /\ ovl = NoOverlap
    /\ motif \in SamplePatterns
    /\ graph = EmptyGraph(SampleNodes, motif.dir)
    /\ count \in 0..MaxCount
    /\ MAX_MOTIF_TRIALS \in 0..MaxTrials
    /\ G = NoGraph /\ altG = NoGraph /\ newEdges = EmptyBag /\ placed = 0
    /\ curCount = 0 /\ oldCount = 0 /\ curAdd = 0 /\ motifPlaceTrial = 0
    /\ samples \in {[j \in 1..n |-> FromInt(0)] : n \in 0..MaxCalls}
    /\ sampleNo = 0
    /\ flag = 0
    /\ z = NoScore /\ perm = <<>>
    /\ ret = NoRet
    /\ pc = "for"

SamplesFrame == UNCHANGED <<graph, motif, listVars, typeVars, count, MAX_MOTIF_TRIALS, z, perm>>

\* for (s=0; s<samples; s++): calc_sample is called
SamplesCall ==
    /\ pc = "for"
    /\ sampleNo < Len(samples)
    /\ CalcSampleStart
    /\ ret' = NoRet
    /\ pc' = "while"
    /\ UNCHANGED <<samples, sampleNo, flag>>
    /\ SamplesFrame

\* suc == 1: the entry is set to -1.0 and the flag is raised
SamplesBad ==
    /\ pc = "done"
    /\ ret.code = 1
    /\ samples' = [samples EXCEPT ![sampleNo + 1] = FromInt(-1)]
    /\ flag' = FlagAfter(flag, ret.code)
    /\ sampleNo' = sampleNo + 1
    /\ pc' = "for"
    /\ CalcSampleOver
    /\ SamplesFrame

\* otherwise: motif_clustering of the sample Gs is written to the entry
SamplesGood ==
    /\ pc = "done"
    /\ ret.code # 1
    /\ samples' = [samples EXCEPT ![sampleNo + 1] =
                      motif_clustering(ret.res, motif, SortedSeq(Subisomorphisms(ret.res, motif)))]
    /\ flag' = FlagAfter(flag, ret.code)
    /\ sampleNo' = sampleNo + 1
    /\ pc' = "for"
    /\ CalcSampleOver
    /\ SamplesFrame

\* after the loop: return 1 if flag == 1, else 0
SamplesReturn ==
    /\ pc = "for"
    /\ ~(sampleNo < Len(samples))
    /\ ret' = [code |-> IF flag = 1 THEN 1 ELSE 0, res |-> NoGraph]
    /\ pc' = "returned"
    /\ UNCHANGED <<samples, sampleNo, flag, G, altG, newEdges, placed, curCount, oldCount,
                   curAdd, motifPlaceTrial>>
    /\ SamplesFrame

SamplesNext ==
    \/ SamplesCall
    \/ SampleEnter
    \/ SampleLeave
    \/ SamplePlace
    \/ SampleAccept
    \/ SampleHit
    \/ SampleReject
    \/ SampleReturn
    \/ SamplesBad
    \/ SamplesGood
    \/ SamplesReturn

SpecSamples == SamplesInit /\ [][SamplesNext]_vars

(***************************************************************************)
(* mcc: z_score.                                                           *)
(***************************************************************************)
\* the entries a samples vector can hold: the sentinel, NaN, coefficients
SampleValues ==
    {FromInt(-1), NaN, FromInt(0), DoubleDiv(1, 3), DoubleDiv(1, 2), DoubleDiv(33, 41), FromInt(1)}

\* the vectors of length n over the set S
SeqsOfLen(S, n) == [1..n -> S]

SeqsUpTo(S, n) == UNION {SeqsOfLen(S, k) : k \in 0..n}

\* the locals of z_score before the loop
ZStart(mcc) ==
    [mcc |-> mcc, j |-> 0, sumMCC |-> FromInt(0), sumMCC2 |-> FromInt(0),
     actualSamples |-> 0, divisor |-> -1, avgMCC |-> NaN, avgMCC2 |-> NaN, res |-> NaN]

ZInit ==
    /\ graph = NoGraph /\ motif = NoGraph
    /\ ListsUnused /\ cTypes = <<>> /\ ovl = NoOverlap
    /\ CalcSampleUnused
    /\ samples \in SeqsUpTo(SampleValues, MaxSamples)
    /\ sampleNo = 0 /\ flag = 0 /\ perm = <<>>
    /\ z \in {ZStart(mcc) : mcc \in {NaN, FromInt(0), DoubleDiv(1, 2), FromInt(1)}}
    /\ ret = NoRet
    /\ pc = "zloop"

ZFrame == UNCHANGED <<graph, motif, listVars, typeVars, sampleVars, samples, sampleNo, flag, perm>>

\* one pass of the loop over the samples: an entry >= 0.0 is added to the sums
ZStep ==
    /\ pc = "zloop"
    /\ z.j < Len(samples)
    /\ LET x == samples[z.j + 1]
       IN  IF GeZero(x)
           THEN \E square \in PowTwo(x) :
                   z' = [z EXCEPT !.j = @ + 1,
                                  !.sumMCC = DAdd(@, x),
                                  !.sumMCC2 = DAdd(@, square),
                                  !.actualSamples = @ + 1]
           ELSE z' = [z EXCEPT !.j = @ + 1]
    /\ UNCHANGED <<pc, ret>>
    /\ ZFrame

\* the two averages (divided by actualSamples) and the z-score, return 0
ZFinish ==
    /\ pc = "zloop"
    /\ ~(z.j < Len(samples))
    /\ LET avgMCC == DQuot(z.sumMCC, FromInt(z.actualSamples))
           avgMCC2 == DQuot(z.sumMCC2, FromInt(z.actualSamples))
           res == DQuot(DSub(z.mcc, avgMCC), DSqrt(DSub(avgMCC2, DMul(avgMCC, avgMCC))))
       IN  /\ z' = [z EXCEPT !.divisor = z.actualSamples, !.avgMCC = avgMCC,
                             !.avgMCC2 = avgMCC2, !.res = res]
           /\ ret' = [code |-> 0, res |-> res]
    /\ pc' = "zdone"
    /\ ZFrame

ZNext ==
    \/ ZStep
    \/ ZFinish

SpecZScore == ZInit /\ [][ZNext]_vars

(***************************************************************************)
(* Claims about calc_sample.                                               *)
(***************************************************************************)
\* C1: whenever calc_sample returns success (0), the graph written to res holds
\* exactly count motif instances as measured by motif_count.
C1_SuccessHasTargetCount ==
    (pc = "done" /\ ret.code = 0) => motif_count(ret.res, motif) = count

\* C2: with MAX_MOTIF_TRIALS = 0 and a target count > 0, calc_sample reports
\* failure (returns 1, no graph written) without running a loop iteration.
C2_ZeroTrialsFails ==
    (MAX_MOTIF_TRIALS = 0 /\ count > 0 /\ pc = "done") =>
        (ret.code = 1 /\ ret.res = NoGraph /\ altG = NoGraph)

\* C3: with target count 0, calc_sample succeeds at once and returns the empty
\* graph on `nodes` vertices: no copy is placed and failure is never reported.
C3_ZeroTargetEmptyGraph ==
    (count = 0 /\ pc = "done") =>
        (ret.code = 0 /\ ret.res = EmptyGraph(vcount(graph), graph.dir) /\ newEdges = EmptyBag)


(***************************************************************************)
(* Claims about the catalogue of clustering types.                         *)
(***************************************************************************)
\* f maps the vertices of g2 one-to-one onto those of g1 and the edges of g2
\* exactly onto the edges of g1
IsIsomorphism(f, g1, g2) ==
    /\ Range(f) = 0..(vcount(g1)-1)
    /\ ImageBag(g1.dir, Edges(g2), f) = g1.e
    /\ \A x \in Edges(g2) : g2.e[x] = 1

\* how many vertices have each (in-degree, out-degree)
DegreeProfile(g) ==
    LET deg == [v \in 0..(g.n-1) |-> <<InDeg(g, v), OutDeg(g, v)>>]
    IN  [d \in Range(deg) |-> Cardinality({v \in 0..(g.n-1) : deg[v] = d})]

\* g1 and g2 are isomorphic (equal sizes and degree profiles are necessary)
SameGraphUpToRenaming(g1, g2) ==
    /\ vcount(g1) = vcount(g2)
    /\ g1.dir = g2.dir
    /\ BagCardinality(g1.e) = BagCardinality(g2.e)
    /\ DegreeProfile(g1) = DegreeProfile(g2)
    /\ \E f \in Subisomorphisms(g1, g2) : IsIsomorphism(f, g1, g2)

\* C5: after any sequence of add_cluster_type calls the graphs stored in
\* cTypes are pairwise non-isomorphic.
C5_CataloguePairwiseNonIsomorphic ==
    \A i \in 1..Len(cTypes) : \A j \in 1..Len(cTypes) :
        i < j => ~SameGraphUpToRenaming(cTypes[i], cTypes[j])

\* a finished catalogue with several types, reached through calls that met a
\* type already stored
C5_Witness ==
    /\ pc = "typesDone"
    /\ Len(cTypes) >= 3
    /\ Len(cTypes) < Len(InjTuples(vcount(motif), 1)) * Len(InjTuples(vcount(motif), 1))


(***************************************************************************)
(* Claims about the unique instances and their pairwise comparison.        *)
(***************************************************************************)
\* the nodes a raw mapping covers
VertexSet(f) == {f[k] : k \in DOMAIN f}

ValidMaps(ms) == {ms[i] : i \in {h \in 1..Len(ms) : IsValid(ms[h])}}

RECURSIVE SumSeq(_, _)
SumSeq(q, n) == IF n = 0 THEN 0 ELSE q[n] + SumSeq(q, n - 1)

\* C4: after the pairwise comparison of mcstats the counters (one per clustering
\* type plus the one for pairs without a shared node) sum to U*(U-1)/2, where U
\* is the number of unique instances: every pair has incremented exactly one.
C4_EveryPairCounted ==
    pc = "done" =>
        SumSeq(cTypeCounts, Len(cTypeCounts)) = (Len(actMaps) * (Len(actMaps) - 1)) \div 2

\* C6: the unique-instance count of mcc (valid raw mappings divided by the
\* automorphism count of the pattern) is the length of the list the
\* de-duplication by node set makes of the same cleaned raw mapping list.
C6_CountEqualsDedupLength ==
    pc = "counted" => stat.uniqueMotifs = Len(unique_instances(maps))

\* C7: whatever the order of the raw mapping list, the de-duplication loop of
\* mcstats ends with as many unique instances as there are distinct node sets
\* among the mappings that were not invalidated.
C7_DedupCountsVertexSets ==
    pc \in {"pairs", "done"} =>
        Len(actMaps) = Cardinality({VertexSet(f) : f \in ValidMaps(maps)})

\* a host and raw list where the order matters to a position-wise comparison:
\* two valid mappings of one node set, a second node set, the list finished
C7_Witness ==
    /\ pc = "done"
    /\ Len(actMaps) >= 2
    /\ Cardinality(ValidMaps(maps)) > Len(actMaps)
    /\ maps # SortedSeq(ValidMaps(maps))

\* C8: on a directed host the clean-up of mcstats invalidates a raw mapping
\* exactly when the host subgraph induced on its nodes has a number of edges
\* other than the pattern's, as the clean-up of mcc does.
C8_InvalidIffEdgeCountDiffers ==
    (pc = "cleaned" /\ graph.dir) =>
        ValidMaps(maps) = {f \in Subisomorphisms(graph, motif) :
                             InducedEcount(graph, VertexSet(f)) = ecount(motif)}

\* the node sets of the exact chain instances of a directed host
ChainInstances(g) ==
    {VertexSet(f) : f \in {h \in Subisomorphisms(g, Chain3) :
                              InducedEcount(g, VertexSet(h)) = ecount(Chain3)}}

\* the host has exactly two chain instances and they share one node
TwoChainsSharingOne(g) ==
    /\ g.dir
    /\ Cardinality(ChainInstances(g)) = 2
    /\ \E a \in ChainInstances(g) : \E b \in ChainInstances(g) :
          a # b /\ Cardinality(a \cap b) = 1

\* C9: for the directed 3-node chain and a host with exactly two chain
\* instances sharing one node, mcstats ends with 2 unique instances, one pair
\* counted in a clustering type with one shared node (5 nodes), none unclustered.
C9_TwoChainsOnePair ==
    (pc = "done" /\ motif = Chain3 /\ TwoChainsSharingOne(graph)) =>
        /\ Len(actMaps) = 2
        /\ cTypeCounts[Len(cTypes) + 1] = 0
        /\ \E k \in 1..Len(cTypes) :
              /\ vcount(cTypes[k]) = 2 * vcount(motif) - 1
              /\ cTypeCounts[k] = 1
              /\ \A h \in 1..Len(cTypes) : h # k => cTypeCounts[h] = 0

\* C10: when motif_clustering has uniqueMotifs >= 2 the coefficient is in [0,1]:
\* 0 <= actSharedVerts <= posSharedVerts and posSharedVerts > 0.
C10_CoefficientInUnitInterval ==
    (pc = "done" /\ stat.uniqueMotifs >= 2) =>
        /\ 0 <= ret.res.num
        /\ ret.res.num <= ret.res.den
        /\ ret.res.den > 0

\* a finished run with at least two instances that share as much as they can
C10_Witness ==
    /\ pc = "done"
    /\ stat.uniqueMotifs >= 2
    /\ stat.totSharedVerts > 0
    /\ ret.res.num = ret.res.den

(***************************************************************************)
(* Claims about the undefined coefficient and the samples.                 *)
(***************************************************************************)
\* C11: when motif_clustering has uniqueMotifs < 2, actSharedVerts and
\* posSharedVerts are both 0 and the coefficient is 0/0, which is NaN: not a
\* number, not an infinity, and it fails the test (>= 0.0) by which z_score
\* takes an entry as a sample.
C11_FewInstancesUndefined ==
    (pc = "done" /\ stat.uniqueMotifs < 2) =>
        /\ ret.res.num = 0
        /\ ret.res.den = 0
        /\ ret.mcc = NaN
        /\ ~GeZero(ret.mcc)

\* a finished run on a host with exactly one instance of the pattern
C11_Witness ==
    /\ pc = "done"
    /\ stat.uniqueMotifs = 1
    /\ stat.actMaps > 0
    /\ ret.mcc.kind = "nan"

\* the positions of samples whose entry is valid (>= 0)
ValidEntries ==
    {j \in 1..Len(samples) : samples[j].kind = "num" /\ (samples[j].mant = <<>> \/ ~samples[j].neg)}

\* the sum of the valid entries among the first n, added in the order of the
\* vector
RECURSIVE SumEntries(_)
SumEntries(n) ==
    IF n = 0 THEN FromInt(0)
    ELSE IF n \notin ValidEntries THEN SumEntries(n - 1)
    ELSE DAdd(SumEntries(n - 1), samples[n])

\* the sums of squares of the valid entries among the first n, added in the
\* order of the vector: one for each choice of the values of pow
RECURSIVE SquareSums(_)
SquareSums(n) ==
    IF n = 0 THEN {FromInt(0)}
    ELSE IF n \notin ValidEntries THEN SquareSums(n - 1)
    ELSE {DAdd(sum, square) : sum \in SquareSums(n - 1), square \in PowTwo(samples[n])}

\* C12: when the samples vector has no valid entry, z_score ends with the
\* undefined z-score and has not divided by its count of actual samples (0).
C12_NoSamplesNoDivision ==
    (pc = "zdone" /\ ValidEntries = {}) =>
        /\ IsNaN(z.res)
        /\ z.divisor # 0

\* C14: z_score ends with the sum and a sum of squares (pow has more than one
\* possible value) of exactly the valid entries of samples, and has divided
\* both by the number of valid entries.
C14_MeansOverValidEntries ==
    pc = "zdone" =>
        /\ z.sumMCC = SumEntries(Len(samples))
        /\ z.sumMCC2 \in SquareSums(Len(samples))
        /\ z.divisor = Cardinality(ValidEntries)
        /\ z.avgMCC = DQuot(SumEntries(Len(samples)), FromInt(Cardinality(ValidEntries)))
        /\ z.avgMCC2 = DQuot(z.sumMCC2, FromInt(Cardinality(ValidEntries)))

\* a finished z_score on a vector with a sentinel and two unequal valid samples
C14_Witness ==
    /\ pc = "zdone"
    /\ \E j \in 1..Len(samples) : samples[j] = FromInt(-1)
    /\ Cardinality(ValidEntries) >= 2
    /\ Cardinality(ValidEntries) < Len(samples)
    /\ z.res.kind = "num"
    /\ z.res.mant # <<>>

\* C13: calc_samples keeps the vector at its length; the step that uses the
\* result of the s-th calc_sample call writes entry s only: -1.0 if the call
\* returned 1, else the coefficient of the graph the call made; and it returns
\* 1 exactly when some entry is the sentinel, i.e. when some call failed.
C13_SentinelPerFailedCall ==
    /\ [](pc = "returned" =>
             (ret.code = 1 <=> \E j \in 1..Len(samples) : samples[j] = FromInt(-1)))
    /\ [][/\ Len(samples') = Len(samples)
          /\ (pc = "done" /\ pc' = "for") =>
                /\ sampleNo' = sampleNo + 1
                /\ samples'[sampleNo'] =
                      IF ret.code = 1 THEN FromInt(-1)
                      ELSE motif_clustering(ret.res, motif,
                                            SortedSeq(Subisomorphisms(ret.res, motif)))
                /\ (ret.code # 1 => samples'[sampleNo'] # FromInt(-1))
                /\ \A j \in 1..Len(samples) : j # sampleNo' => samples'[j] = samples[j]
         ]_vars

\* calc_samples has returned 1 after a call that succeeded and a later one
\* that failed: the first entry is still the coefficient, the second the sentinel
C13_Witness ==
    /\ pc = "returned"
    /\ ret.code = 1
    /\ Len(samples) = 2
    /\ samples[1] # FromInt(-1)
    /\ samples[2] = FromInt(-1)

\* the largest batch size of a run with count <= MaxCount: curAdd starts at
\* max(1, count / 5) and never grows
MaxBatch == IF MaxCount \div 5 < 1 THEN 1 ELSE MaxCount \div 5

\* the largest number of edges one candidate of such a run adds
BatchEdges == MaxBatch * ecount(CHOOSE m \in SamplePatterns :
                                   \A m2 \in SamplePatterns : ecount(m2) <= ecount(m))

\* the edges the accepted graph of such a run can come to hold. A candidate is
\* accepted when its count differs from the last accepted one; edges are only
\* added, so each set of three nodes starts being an instance at most once and
\* stops being one at most once.
MaxSampleEdges ==
    2 * ((SampleNodes * (SampleNodes - 1) * (SampleNodes - 2)) \div 6) * BatchEdges

\* the measure of what calc_sample still has to do: room for accepted edges,
\* trials left, batch size, position in the loop, in this order of weight
SampleStage ==
    IF pc = "done" THEN 0
    ELSE IF pc = "exit" THEN 1
    ELSE IF pc = "place" THEN 2 + (curAdd - placed)
    ELSE 3 + MaxBatch

SampleRank ==
    (((MaxSampleEdges + BatchEdges - ecount(G)) * (MaxTrials + 1)
        + (MAX_MOTIF_TRIALS - motifPlaceTrial)) * (MaxBatch + 1)
        + curAdd) * (MaxBatch + 4)
    + SampleStage

\* C15: calc_sample terminates. It is always at a point of its loop where the
\* code has a next step, the accepted graph stays within MaxSampleEdges, and
\* every step lowers a
\* measure that is never negative (an accepted candidate resets the trial
\* counter but uses up room for edges), so the loop is left after finitely
\* many iterations.
C15_SampleTerminates ==
    /\ [](/\ SampleRank >= 0
          /\ pc = "while" => ecount(G) <= MaxSampleEdges
          /\ pc \in {"while", "place", "exit", "done"}
          /\ pc = "place" => placed <= curAdd)
    /\ [][SampleRank' < SampleRank]_vars

\* calc_sample has returned after an accepted progress step had reset the
\* trial counter and the trials were then used up
C15_Witness ==
    /\ pc = "done"
    /\ oldCount > 0
    /\ MAX_MOTIF_TRIALS > 1
    /\ motifPlaceTrial = MAX_MOTIF_TRIALS

\* C19: calc_sample returns 1, with no graph written to res, exactly when the
\* loop was left with curCount > count; otherwise it returns 0 with res a copy
\* of the accepted graph G.
C19_FailureOnlyWhenAbove ==
    pc = "done" =>
        /\ ret.code = 1 <=> curCount > count
        /\ ret.code = 1 => ret.res = NoGraph
        /\ ret.code # 1 => (ret.code = 0 /\ ret.res = G)

\* a failure after progress: a graph with instances had been accepted, and the
\* last candidate held more instances than the target
C19_Witness ==
    /\ pc = "done"
    /\ ret.code = 1
    /\ oldCount > 0
    /\ ecount(G) > 0

\* (count - curCount) / 3, at least 1: newAdd of the accept branch
RecalculatedBatch(target, cur) ==
    IF (target - cur) \div 3 < 1 THEN 1 ELSE (target - cur) \div 3

\* C20 as stated: after calc_sample accepts a progress candidate the batch size
\* is max(1, (count - curCount)/3), whatever it was before, and the trial
\* counter is 0.
C20_BatchRecalculated ==
    [][SampleAccept =>
          /\ curAdd' = RecalculatedBatch(count, curCount')
          /\ motifPlaceTrial' = 0]_vars

\* C20 amended: after calc_sample accepts a progress candidate the batch size
\* is the smaller of its previous value and max(1, (count - curCount)/3): the
\* batch only shrinks; and the trial counter is 0.
C20_BatchOnlyShrinks ==
    [][SampleAccept =>
          /\ curAdd' = Min2(curAdd, RecalculatedBatch(count, curCount'))
          /\ motifPlaceTrial' = 0]_vars

\* just after an accepted candidate: the batch size kept is smaller than the
\* recalculated one
C20_Witness ==
    /\ pc = "while"
    /\ altG = G
    /\ ecount(G) > 0
    /\ oldCount = curCount
    /\ curCount > 0
    /\ motifPlaceTrial = 0
    /\ curAdd < RecalculatedBatch(count, curCount)

\* C16: the result of motif_clustering (actSharedVerts, posSharedVerts and
\* the coefficient) is the same on a host and on the host with its node IDs
\* renamed by a bijection, the raw mapping list being renamed accordingly; the
\* renamed list is the list of the mappings of the renamed host.
C16_RenamingKeepsResult ==
    /\ pc \in {"renamed", "compared"} =>
          {maps[i] : i \in 1..Len(maps)} = Subisomorphisms(graph, motif)
    /\ pc = "compared" =>
          /\ stat.res = ret.res
          /\ stat.mcc = ret.mcc

\* a directed host renamed by a bijection that moves a node, with instances
\* that share vertices and a mapping the clean-up invalidates
C16_Witness ==
    /\ pc = "compared"
    /\ graph.dir
    /\ \E v \in DOMAIN perm : perm[v] # v
    /\ stat.res.num > 0
    /\ stat.res.den > 0
    /\ \E i \in 1..Len(maps) : ~IsValid(mcc_clean(graph, motif, maps)[i])

\* C17: for a pattern of 5 or more vertices motif_clustering_stats returns the
\* error code 1 from the catalogue construction: the loop over the overlaps is
\* never left normally, the host is never searched, no count is made.
C17_LargePatternRejected ==
    vcount(motif) >= 5 =>
        /\ pc \in {"types", "done"}
        /\ pc = "types" => (ret = NoRet /\ ovl.overlap <= 4)
        /\ pc = "done" => ret.code = 1
        /\ maps = <<>>
        /\ cTypeCounts = <<>>

\* the pattern of five vertices has been rejected at the overlap of four
C17_Witness ==
    /\ vcount(motif) = 5
    /\ pc = "done"
    /\ ret.code = 1
    /\ ovl.overlap = 4
    /\ Len(cTypes) > 0

\* the mappings of the exact instances of the pattern in the host
Instances(g, m) ==
    {f \in Subisomorphisms(g, m) :
        g.dir => InducedEcount(g, VertexSet(f)) = ecount(m)}

\* C18: after motif_extract nMaps holds no original node twice, is as long as
\* the output graph has vertices, and holds exactly the host nodes of the
\* instances of the pattern; every edge (a, b) of the output graph is the image
\* of a pattern edge under an instance, so (nMaps[a], nMaps[b]) is a host edge.
C18_ExtractIsUnionOfInstances ==
    pc = "done" =>
        LET nMaps == ret.nMaps
            outG == ret.res
            Orig(a) == nMaps[a + 1]
        IN  /\ \A p, q \in 1..Len(nMaps) : nMaps[p] = nMaps[q] => p = q
            /\ Len(nMaps) = vcount(outG)
            /\ Range(nMaps) = UNION {VertexSet(f) : f \in Instances(graph, motif)}
            /\ \A x \in Edges(outG) :
                  /\ outG.e[x] = 1
                  /\ x[1] \in 0..(Len(nMaps)-1) /\ x[2] \in 0..(Len(nMaps)-1)
                  /\ EdgeOf(graph.dir, Orig(x[1]), Orig(x[2])) \in Edges(graph)
                  /\ \E f \in Instances(graph, motif) : \E y \in Edges(motif) :
                        EdgeOf(graph.dir, f[y[1]], f[y[2]])
                            = EdgeOf(graph.dir, Orig(x[1]), Orig(x[2]))

\* C21: when calc_sample rejects a candidate the batch size becomes
\* floor(curAdd / 3); the trial counter is incremented only when that quotient
\* is 0, the batch size then being pinned at 1; with a quotient of 1 or more
\* the trial counter is left unchanged.
C21_TrialCountedOnlyAtZero ==
    [][SampleReject =>
          LET quotient == curAdd \div 3
          IN  /\ curAdd' = IF quotient = 0 THEN 1 ELSE quotient
              /\ motifPlaceTrial' = IF quotient = 0 THEN motifPlaceTrial + 1
                                    ELSE motifPlaceTrial]_vars

\* C22: calc_sample leaves its loop without hitting the target only once the
\* trial counter is strictly greater than MAX_MOTIF_TRIALS.
C22_LeftOnlyAboveMaxTrials ==
    (pc = "exit" /\ curCount # count) => motifPlaceTrial > MAX_MOTIF_TRIALS

\* the graph sub is, through the node numbering map, the subgraph the host g
\* induces on the nodes of map
InducedThrough(g, sub, map) ==
    /\ vcount(sub) = Cardinality(DOMAIN map)
    /\ \A x \in Edges(sub) : sub.e[x] = 1
    /\ \A p \in DOMAIN map : \A q \in DOMAIN map :
          p # q => (EdgeOf(g.dir, p, q) \in Edges(sub)
                        <=> EdgeOf(g.dir, map[p], map[q]) \in Edges(g))

\* C23: for every pair of unique instances that share a node, the graph of
\* clean_subgraph is, through its map vector, the subgraph of the host induced
\* on the union of the two node sets, edges between a node only in the first
\* instance and a node only in the second included.
C23_CleanSubgraphIsInduced ==
    (pc = "pairs" /\ pair.i < Len(actMaps) - 1) =>
        LET curi == actMaps[pair.i + 1]
            curj == actMaps[pair.j + 1]
        IN  HasOverlap(curi, curj) =>
                InducedThrough(graph, clean_subgraph(graph, motif, curi, curj),
                               FullMap(curi, curj))

\* the edges of g with both ends in S
EdgesWithin(g, S) == {x \in Edges(g) : x[1] \in S /\ x[2] \in S}

\* the merge of two copies of m keeps both copies: on the vertices of the
\* first copy and on those of the second (the images of the pattern's vertices
\* under the merge mapping) it has as many edges as the pattern, none doubled
Faithful(g, m, m1, m2) ==
    LET first == 0..(vcount(m) - 1)
        second == Range(MergeMap(m, m1, m2))
    IN  /\ \A x \in Edges(g) : g.e[x] = 1
        /\ Cardinality(EdgesWithin(g, first)) = ecount(m)
        /\ Cardinality(EdgesWithin(g, second)) = ecount(m)

\* the two overlap vectors of the call of add_cluster_type that comes next
NextCall ==
    LET tuples == InjTuples(vcount(motif), ovl.overlap)
    IN  [m1 |-> tuples[(ovl.call \div Len(tuples)) + 1],
         m2 |-> tuples[(ovl.call % Len(tuples)) + 1]]

\* C24: every graph of the catalogue keeps the first copy (as many edges on
\* the vertices 0..size-1 as the pattern has); a call of add_cluster_type
\* appends nothing but its own merge, and only when the merge keeps both
\* copies: a merge failing either check is never appended.
C24_CatalogueHoldsFaithfulMerges ==
    /\ [](\A k \in 1..Len(cTypes) :
             Cardinality(EdgesWithin(cTypes[k], 0..(vcount(motif) - 1))) = ecount(motif))
    /\ [][CatalogueAdd =>
            LET g == merge_motifs(motif, NextCall.m1, NextCall.m2)
            IN  \/ cTypes' = cTypes
                \/ /\ cTypes' = Append(cTypes, g)
                   /\ Faithful(g, motif, NextCall.m1, NextCall.m2)]_vars

\* the catalogue of the directed chain is finished: it holds merges, and the
\* merge of the overlap (0,1) with (0,2), whose second copy gains an edge, is
\* not among them
C24_Witness ==
    /\ pc = "typesDone"
    /\ motif = Chain3
    /\ Len(cTypes) >= 2
    /\ LET m1 == [i \in 0..1 |-> i]
           m2 == [i \in 0..1 |-> 2 * i]
           g == merge_motifs(motif, m1, m2)
       IN  /\ ~Faithful(g, motif, m1, m2)
           /\ Cardinality(EdgesWithin(g, 0..2)) = ecount(motif)
           /\ \A k \in 1..Len(cTypes) : cTypes[k] # g

\* the merges of two copies of m over k shared vertices that keep both copies
FaithfulMerges(m, k) ==
    LET tuples == InjTuples(vcount(m), k)
        pairs == {x \in (1..Len(tuples)) \X (1..Len(tuples)) :
                    Faithful(merge_motifs(m, tuples[x[1]], tuples[x[2]]), m,
                             tuples[x[1]], tuples[x[2]])}
    IN  {merge_motifs(m, tuples[x[1]], tuples[x[2]]) : x \in pairs}

\* C25: for a pattern of 3 or 4 vertices the finished catalogue is complete:
\* for every overlap size k in 1..size-1 and every injective assignment of k
\* vertices of one copy to k of the other whose merge keeps both copies, the
\* catalogue holds a graph isomorphic to the merge.
C25_CatalogueComplete ==
    (pc = "typesDone" /\ vcount(motif) \in {3, 4}) =>
        \A k \in 1..(vcount(motif) - 1) :
            \A g \in FaithfulMerges(motif, k) :
                \E t \in 1..Len(cTypes) : SameGraphUpToRenaming(cTypes[t], g)

\* the finished catalogue of a pattern of 4 vertices: a merge over 3 shared
\* vertices keeps both copies and is in the catalogue under another numbering
\* of its vertices only
C25_Witness ==
    /\ pc = "typesDone"
    /\ vcount(motif) = 4
    /\ \E g \in FaithfulMerges(motif, 3) :
          /\ \A t \in 1..Len(cTypes) : cTypes[t] # g
          /\ \E t \in 1..Len(cTypes) : SameGraphUpToRenaming(cTypes[t], g)

\* the node sets of the valid mappings of a cleaned list
InstanceSets(ms) == {VertexSet(f) : f \in ValidMaps(ms)}

\* every valid node set is in the cleaned list exactly rot times
EachInstanceRotTimes(ms, rot) ==
    \A S \in InstanceSets(ms) :
        Cardinality({i \in 1..Len(ms) : IsValid(ms[i]) /\ VertexSet(ms[i]) = S}) = rot

\* the sum of the numbers of shared nodes over a set of pairs of node sets
RECURSIVE SumCommon(_)
SumCommon(pairs) ==
    IF pairs = {} THEN 0
    ELSE LET x == CHOOSE y \in pairs : TRUE
         IN  Cardinality(x[1] \cap x[2]) + SumCommon(pairs \ {x})

\* the pairs of distinct node sets, each unordered pair in both orders
DistinctPairs(sets) == {y \in sets \X sets : y[1] # y[2]}

\* C26: when every valid instance is in the cleaned raw list exactly rotSym
\* times, the actSharedVerts of motif_clustering is the sum of the numbers of
\* shared nodes over the unordered pairs of distinct instances, and
\* posSharedVerts is (size-1)*U*(U-1)/2 for U unique instances.
C26_RawCountsMatchInstances ==
    (pc \in {"shared", "done"} /\ EachInstanceRotTimes(maps, stat.rotSym)) =>
        LET sets == InstanceSets(maps)
            U == Cardinality(sets)
        IN  /\ 2 * stat.actSharedVerts = SumCommon(DistinctPairs(sets))
            /\ stat.posSharedVerts = ((vcount(motif) - 1) * U * (U - 1)) \div 2
            /\ stat.uniqueMotifs = U

\* motif_clustering has returned for a pattern with several automorphisms and
\* a host with several instances that share nodes, each in the list rotSym times
C26_Witness ==
    /\ pc = "done"
    /\ stat.rotSym > 1
    /\ EachInstanceRotTimes(maps, stat.rotSym)
    /\ Cardinality(InstanceSets(maps)) >= 3
    /\ stat.actSharedVerts > 0
    /\ stat.actSharedVerts < stat.posSharedVerts

\* no edge of g is there more than once
NoDuplicateEdge(g) == \A x \in Edges(g) : g.e[x] = 1

\* C27: duplicate edges of the random placement are removed before a graph is
\* compared: the candidate calc_sample hands to motif_count, and the sample
\* calc_samples hands to motif_clustering, hold no duplicate edge.
C27_NoDuplicateEdgeCompared ==
    /\ (pc = "place" /\ placed = curAdd) => NoDuplicateEdge(Candidate)
    /\ (pc = "done" /\ ret.code = 0) => NoDuplicateEdge(ret.res)

\* C28: with the pairwise loop of motif_clustering dealt to concurrent
\* threads as the EXPERIMENTAL pragma says (totSharedVerts shared, updated by
\* an unsynchronised read-add-write), the final totSharedVerts is the
\* sequential sum, whatever the interleaving of the threads.
C28_ParallelSumIsSequential ==
    pc = "joined" => stat.totSharedVerts = totSharedVertsOf(maps, vcount(motif))


====
